---- MODULE Spec2Model ----
(***************************************************************************)
(* A model of github.com/elastic/go-resource: the Manager's apply loop     *)
(* (manager.go) over resources implementing the Resource interface, and    *)
(* the File resource (file.go) over a small file system.                   *)
(***************************************************************************)
EXTENDS Integers, Sequences, FiniteSets, TLC

VARIABLES
    resources,      \* the Resources list handed to ApplyCtx
    ctxCancelled,   \* whether the context.Context handed to ApplyCtx is cancelled
    pc,             \* position of the caller: "idle", "resources", "done", "panic", ...
    idx,            \* 1-based position of the range loop of applyResources
    results,        \* the results accumulated by the running / last applyResources
    err,            \* the error returned by the last ApplyCtx (Nil: nil)
    log,            \* history: the Resource calls made by the running / last ApplyCtx
    runs,           \* history: [results, err, log] of every returned applyResources
    fs,             \* the file system under the FileProvider prefix
    providers,      \* Manager.providers: a map from names to providers
    facters,        \* Manager.facters: the list Fact walks, first to last
    env,            \* the environment variables EnvFacter reads
    registered,     \* history: the RegisterProvider and AddFacter calls made
    lookup,         \* history: the last Provider or Fact call and what it answered
    migrations,     \* Migrator.migrations: the versions of the entries, in order
    version,        \* the value the Versioner of the Migrator persists
    stack,          \* the RunMigrations calls in progress, outermost first
    mlog,           \* history: the migration functions and Versioner methods called
    mruns,          \* history: [results, err] of every returned ApplyCtx with a migrator
    tmp,            \* the temporary file of a running safeWriteContent
    call,           \* history: the File.Create or File.Update call made step by step
    seen            \* history: what a concurrent reader last saw at the target path

registryVars == <<providers, facters, env, registered, lookup>>

migratorVars == <<migrations, version, stack, mlog, mruns>>

writeVars == <<tmp, call, seen>>

vars == <<resources, ctxCancelled, pc, idx, results, err, log, runs, fs,
          registryVars, migratorVars, writeVars>>

\* Longest resource list handed to ApplyCtx in the Manager specification.
MaxResources == 3

\* Number of consecutive Apply calls in the File specification.
MaxApplies == 2

----------------------------------------------------------------------------
(* Go error values.  An error is modelled by its Unwrap chain, outermost   *)
(* message first; nil is the empty chain.  errors.Is(err, target) walks    *)
(* the chain and compares every link with target.                          *)

Nil == <<>>

\* context.Canceled
Canceled == <<"context canceled">>

\* fmt.Errorf(msg + ": %w", e)
Wrap(msg, e) == <<msg>> \o e

\* errors.Is(e, target), for a non-nil target
ErrorsIs(e, target) ==
    /\ target # Nil
    /\ \E i \in 1..Len(e) : SubSeq(e, i, Len(e)) = target

\* errors.New("there where errors")
ThereWhereErrors == <<"there where errors">>

\* The errors the resources of the Manager specification return: a plain
\* error and one wrapping context.Canceled, as the doubles of the tests do.
SomeError == <<"some error">>
CreateCanceled == Wrap("could not create resource", Canceled)
ResourceErrors == {SomeError, CreateCanceled}

----------------------------------------------------------------------------
(* manager.go *)

ActionCreate == "create"
ActionUpdate == "update"

\* ApplyResult{action, resource, err}
ApplyResult(action, resource, e) ==
    [action |-> action, resource |-> resource, err |-> e]

\* The tail of applyResources: the error returned once the loop has ended.
AggregateError(rs) ==
    IF \E i \in 1..Len(rs) : rs[i].err # Nil THEN ThereWhereErrors ELSE Nil

\* One call of a Resource or ResourceState method, kept as history: the
\* position of the resource in the list, whether the context was cancelled
\* when the loop reached the resource, the error returned, and the boolean
\* answered (Found() of the state Get returned, or NeedsUpdate's answer).
Call(op, e, value) ==
    [op |-> op, idx |-> idx, cancelled |-> ctxCancelled, err |-> e, value |-> value]

InLoop == pc = "resources" /\ idx <= Len(resources)

\* ApplyCtx returns (rs, e) to the caller.
ReturnApply(rs, e, lg) ==
    /\ pc' = "done"
    /\ results' = rs
    /\ err' = e
    /\ log' = lg
    /\ runs' = Append(runs, [results |-> rs, err |-> e, log |-> lg])
    /\ UNCHANGED <<resources, ctxCancelled, idx>>

\* ApplyCtx: applyMigrations returns (nil, nil) for a Manager without a
\* migrator, then applyResources starts with empty results.
ApplyCtx ==
    /\ pc \in {"idle", "done"}
    /\ pc' = "resources"
    /\ idx' = 1
    /\ results' = <<>>
    /\ err' = Nil
    /\ log' = <<>>
    /\ UNCHANGED <<resources, ctxCancelled, runs>>

\* A faulty variant of GetFails: the error of Get is dropped and the loop continues.
GetFailsSkips(e) ==
    /\ InLoop
    /\ e # Nil
    /\ log' = Append(log, Call("Get", e, FALSE))
    /\ idx' = idx + 1
    /\ UNCHANGED <<resources, ctxCancelled, pc, results, err, runs>>

\* A faulty variant of GetFails: the results recorded so far are not returned.
GetFailsDropsResults(e) ==
    /\ InLoop
    /\ e # Nil
    /\ ReturnApply(<<>>, e, Append(log, Call("Get", e, FALSE)))

\* resource.Get returns an error: applyResources returns (results, err).
GetFails(e) ==
    /\ InLoop
    /\ e # Nil
    /\ ReturnApply(results, e, Append(log, Call("Get", e, FALSE)))

\* A faulty variant of CreateResource: the continue after the create result is missing,
\* so the loop goes on to NeedsUpdate and Update for the same resource.
CreateFallsThrough(actErr) ==
    /\ InLoop
    /\ results' = results \o <<ApplyResult(ActionCreate, resources[idx], actErr),
                               ApplyResult(ActionUpdate, resources[idx], Nil)>>
    /\ log' = log \o <<Call("Get", Nil, FALSE), Call("Create", actErr, FALSE),
                       Call("NeedsUpdate", Nil, TRUE), Call("Update", Nil, FALSE)>>
    /\ idx' = idx + 1
    /\ UNCHANGED <<resources, ctxCancelled, pc, err, runs>>

\* A faulty variant of CreateResource: a failed Create returns from applyResources.
CreateAbortsOnError(actErr) ==
    /\ InLoop
    /\ IF actErr # Nil
       THEN ReturnApply(Append(results, ApplyResult(ActionCreate, resources[idx], actErr)),
                        ThereWhereErrors,
                        log \o <<Call("Get", Nil, FALSE), Call("Create", actErr, FALSE)>>)
       ELSE /\ results' = Append(results, ApplyResult(ActionCreate, resources[idx], actErr))
            /\ log' = log \o <<Call("Get", Nil, FALSE), Call("Create", actErr, FALSE)>>
            /\ idx' = idx + 1
            /\ UNCHANGED <<resources, ctxCancelled, pc, err, runs>>

\* !current.Found(): Create, append the create result, continue.
CreateResource(actErr) ==
    /\ InLoop
    /\ results' = Append(results, ApplyResult(ActionCreate, resources[idx], actErr))
    /\ log' = log \o <<Call("Get", Nil, FALSE), Call("Create", actErr, FALSE)>>
    /\ idx' = idx + 1
    /\ UNCHANGED <<resources, ctxCancelled, pc, err, runs>>

\* A faulty variant of NeedsUpdateFails: the results so far are not returned.
NeedsUpdateFailsDropsResults(needsUpdate, e) ==
    /\ InLoop
    /\ e # Nil
    /\ ReturnApply(<<>>, e,
                   log \o <<Call("Get", Nil, TRUE), Call("NeedsUpdate", e, needsUpdate)>>)

\* current.NeedsUpdate returns an error: applyResources returns (results, err).
NeedsUpdateFails(needsUpdate, e) ==
    /\ InLoop
    /\ e # Nil
    /\ ReturnApply(results, e,
                   log \o <<Call("Get", Nil, TRUE), Call("NeedsUpdate", e, needsUpdate)>>)

\* A faulty variant of UpdateResource: the update result is put in front of the others.
UpdatePrepends(actErr) ==
    /\ InLoop
    /\ results' = <<ApplyResult(ActionUpdate, resources[idx], actErr)>> \o results
    /\ log' = log \o <<Call("Get", Nil, TRUE), Call("NeedsUpdate", Nil, TRUE),
                       Call("Update", actErr, FALSE)>>
    /\ idx' = idx + 1
    /\ UNCHANGED <<resources, ctxCancelled, pc, err, runs>>

\* A faulty variant of UpdateResource: an Update that returned an error is called again.
UpdateRetries(actErr) ==
    /\ InLoop
    /\ results' = Append(results, ApplyResult(ActionUpdate, resources[idx], actErr))
    /\ log' = log \o <<Call("Get", Nil, TRUE), Call("NeedsUpdate", Nil, TRUE),
                       Call("Update", actErr, FALSE)>>
                \o (IF actErr # Nil THEN <<Call("Update", actErr, FALSE)>> ELSE <<>>)
    /\ idx' = idx + 1
    /\ UNCHANGED <<resources, ctxCancelled, pc, err, runs>>

\* needsUpdate: Update, append the update result, continue.
UpdateResource(actErr) ==
    /\ InLoop
    /\ results' = Append(results, ApplyResult(ActionUpdate, resources[idx], actErr))
    /\ log' = log \o <<Call("Get", Nil, TRUE), Call("NeedsUpdate", Nil, TRUE),
                       Call("Update", actErr, FALSE)>>
    /\ idx' = idx + 1
    /\ UNCHANGED <<resources, ctxCancelled, pc, err, runs>>

\* A faulty variant of NoAction: the answer of NeedsUpdate is ignored and Update runs.
UpdatesWithoutNeed ==
    /\ InLoop
    /\ results' = Append(results, ApplyResult(ActionUpdate, resources[idx], Nil))
    /\ log' = log \o <<Call("Get", Nil, TRUE), Call("NeedsUpdate", Nil, FALSE),
                       Call("Update", Nil, FALSE)>>
    /\ idx' = idx + 1
    /\ UNCHANGED <<resources, ctxCancelled, pc, err, runs>>

\* Found and no update needed: the loop moves on without a result.
NoAction ==
    /\ InLoop
    /\ log' = log \o <<Call("Get", Nil, TRUE), Call("NeedsUpdate", Nil, FALSE)>>
    /\ idx' = idx + 1
    /\ UNCHANGED <<resources, ctxCancelled, pc, results, err, runs>>

\* The loop has ended: the error is computed from the results and returned.
LoopEnds ==
    /\ pc = "resources"
    /\ idx > Len(resources)
    /\ ReturnApply(results, AggregateError(results), log)

----------------------------------------------------------------------------
(* manager.go: the provider registry.                                      *)
(*                                                                         *)
(* A provider is a value of the empty interface Provider: nil, or a value  *)
(* with a dynamic type.  The target of a lookup is an `any`: nil, or a     *)
(* pointer to a variable of some type holding some value.                  *)

\* Most RegisterProvider calls made before and between the lookups.
MaxRegistrations == 3

ProviderNames == {"file", "test"}

\* The dynamic types of the registered values and the types of the
\* variables targets point to; "Provider" is the empty interface.
FileProviderPtr == "*FileProvider"
TestProviderPtr == "*TestProvider"
ProviderInterface == "Provider"
ConcreteTypes == {FileProviderPtr, TestProviderPtr}
PointeeTypes == ConcreteTypes \cup {ProviderInterface}

\* A non-nil provider: its dynamic type and which value of that type it is.
ProviderValue(type, id) == [type |-> type, id |-> id]

\* The nil interface value, also the zero value of every type modelled here.
NilValue == [type |-> "nil", id |-> "nil"]

Providers ==
    {ProviderValue(FileProviderPtr, "one"), ProviderValue(FileProviderPtr, "two"),
     ProviderValue(TestProviderPtr, "one"), NilValue}

\* reflect: Type.AssignableTo, for the dynamic type t of a non-nil value and
\* the type u of a variable: identical types, or u is the empty interface.
AssignableTo(t, u) == t = u \/ u = ProviderInterface

\* The untyped nil handed as target.
NilTarget == [nil |-> TRUE]

\* &v, for a variable v of the given type currently holding value.
PointerTo(type, value) == [nil |-> FALSE, type |-> type, value |-> value]

\* The values a variable of type u may hold.
ValuesOf(u) == {p \in Providers : p = NilValue \/ AssignableTo(p.type, u)}

Targets ==
    {NilTarget} \cup UNION {{PointerTo(u, v) : v \in ValuesOf(u)} : u \in PointeeTypes}

\* What a lookup does: it panics, or it returns found and leaves the target
\* variable holding a value.
Panics == [panic |-> TRUE]
Returns(found, target) == [panic |-> FALSE, found |-> found, target |-> target]

\* Manager.Provider(name, target) on the registry provs.  reflect.TypeOf of
\* a nil interface value is the nil Type, and calling AssignableTo on it is
\* a nil dereference.
Provider(provs, name, target) ==
    IF target = NilTarget THEN Panics
    ELSE IF name \notin DOMAIN provs THEN Returns(FALSE, target)
    ELSE IF provs[name] = NilValue THEN Panics
    ELSE IF ~AssignableTo(provs[name].type, target.type) THEN Returns(FALSE, target)
    ELSE Returns(TRUE, [target EXCEPT !.value = provs[name]])

\* Manager.RegisterProvider: m.providers[name] = provider
RegisterProvider(name, provider) ==
    /\ pc = "idle"
    /\ Len(registered) < MaxRegistrations
    /\ providers' = (name :> provider) @@ providers
    /\ registered' = Append(registered,
                            [op |-> "RegisterProvider", name |-> name, value |-> provider])
    /\ UNCHANGED <<facters, env, lookup>>

\* A call of Manager.Provider(name, target), kept as history with the number
\* of registrations made before it.
CallProvider(name, target) ==
    /\ pc = "idle"
    /\ lookup' = [op |-> "Provider", name |-> name, target |-> target,
                  at |-> Len(registered), out |-> Provider(providers, name, target)]
    /\ UNCHANGED <<providers, facters, env, registered>>

----------------------------------------------------------------------------
(* manager.go, facters.go: the fact registry. *)

\* Most AddFacter calls made before and between the lookups.
MaxFacters == 3

FactNames == {"k", "j"}

\* const defaultEnvFacterPrefix
DefaultEnvFacterPrefix == "FACT"

\* The environment variables of the model, each a <<prefix, fact name>> pair
\* standing for prefix + "_" + name, and the values they may be set to.
EnvNames == {<<DefaultEnvFacterPrefix, "k">>, <<"TEST", "k">>}
EnvValues == {"a", "b"}

\* StaticFacter(nil)
NilStaticFacter == [kind |-> "static", nil |-> TRUE]

\* StaticFacter{...}, a map from fact names to values
StaticFacter(map) == [kind |-> "static", nil |-> FALSE, map |-> map]

\* &EnvFacter{Prefix: prefix}
EnvFacter(prefix) == [kind |-> "env", Prefix |-> prefix]

Facters ==
    {NilStaticFacter,
     StaticFacter("k" :> "a"), StaticFacter("k" :> "b"), StaticFacter("j" :> "a"),
     EnvFacter(""), EnvFacter("TEST")}

\* What Fact returns: (value, found)
Fact(value, found) == [value |-> value, found |-> found]

\* os.LookupEnv of prefix + "_" + name
LookupEnv(environ, prefix, name) ==
    IF <<prefix, name>> \in DOMAIN environ
    THEN Fact(environ[<<prefix, name>>], TRUE)
    ELSE Fact("", FALSE)

\* StaticFacter.Fact
StaticFacterFact(f, name) ==
    IF f.nil THEN Fact("", FALSE)
    ELSE IF name \in DOMAIN f.map THEN Fact(f.map[name], TRUE)
    ELSE Fact("", FALSE)

\* EnvFacter.Fact
EnvFacterFact(f, environ, name) ==
    LookupEnv(environ, IF f.Prefix = "" THEN DefaultEnvFacterPrefix ELSE f.Prefix, name)

\* Facter.Fact, by the dynamic type of the facter
FacterFact(f, environ, name) ==
    IF f.kind = "static" THEN StaticFacterFact(f, name) ELSE EnvFacterFact(f, environ, name)

\* A faulty variant of ManagerFact: the list is walked from its last element.
ManagerFactFromLast(fcts, environ, name) ==
    LET hits == {i \in 1..Len(fcts) : FacterFact(fcts[i], environ, name).found} IN
    IF hits = {} THEN Fact("", FALSE)
    ELSE FacterFact(fcts[CHOOSE i \in hits : \A j \in hits : j <= i], environ, name)

\* Manager.Fact: the first facter of the list that finds the name answers.
ManagerFact(fcts, environ, name) ==
    LET hits == {i \in 1..Len(fcts) : FacterFact(fcts[i], environ, name).found} IN
    IF hits = {} THEN Fact("", FALSE)
    ELSE FacterFact(fcts[CHOOSE i \in hits : \A j \in hits : i <= j], environ, name)

\* Manager.AddFacter: the facter is put in front of the list.
AddFacter(facter) ==
    /\ pc = "idle"
    /\ Len(facters) < MaxFacters
    /\ facters' = <<facter>> \o facters
    /\ registered' = Append(registered, [op |-> "AddFacter", value |-> facter])
    /\ UNCHANGED <<providers, env, lookup>>

\* os.Setenv, by the process itself as the test of EnvFacter does.
Setenv(name, value) ==
    /\ pc = "idle"
    /\ env' = (name :> value) @@ env
    /\ UNCHANGED <<providers, facters, registered, lookup>>

\* A call of Manager.Fact(name), kept as history with the environment and the
\* number of registrations made before it.
CallFact(name) ==
    /\ pc = "idle"
    /\ lookup' = [op |-> "Fact", name |-> name, env |-> env,
                  at |-> Len(registered), out |-> ManagerFact(facters, env, name)]
    /\ UNCHANGED <<providers, facters, env, registered>>

\* No Provider or Fact call was made yet.
NoLookup == [op |-> "none"]

\* NewManager(): an empty provider map and no facters.
NewManager ==
    /\ providers = <<>>
    /\ facters = <<>>
    /\ env = <<>>
    /\ registered = <<>>
    /\ lookup = NoLookup

\* A Manager without a migrator.
NoMigrator ==
    /\ migrations = <<>>
    /\ version = 0
    /\ stack = <<>>
    /\ mlog = <<>>
    /\ mruns = <<>>

\* No File.Create or File.Update is made step by step: no temporary file
\* exists and no reader looks at the target.
NoCall == [op |-> "none"]
NoWrite ==
    /\ tmp = [kind |-> "none"]
    /\ call = NoCall
    /\ seen = <<>>

----------------------------------------------------------------------------
(* migration.go, and the migrations part of ApplyCtx in manager.go.        *)
(*                                                                         *)
(* A migration function is caller's code: it applies resources with the    *)
(* Manager it is handed, and it returns results and any error.  The        *)
(* Versioner keeps the value of its last successful Set, as the one of     *)
(* the tests does; a Set that returns an error has stored nothing.         *)

\* Most AddMigration calls made on the Migrator.
MaxMigrations == 3

\* Largest version number used (versions are uint: 0 is the smallest).
MaxVersion == 3

\* Most ApplyCtx calls made on the Manager with the migrator.
MaxRuns == 2

\* Deepest nesting of RunMigrations calls followed.
MaxDepth == 2

Versions == 0..MaxVersion

\* *Manager: its providers, its facters, and whether its migrator field
\* points to the Migrator or is nil.
Manager(provs, fcts, migrator) ==
    [providers |-> provs, facters |-> fcts, migrator |-> migrator]

\* The Manager the caller attached the migrator to and calls ApplyCtx on.
TopManager == Manager(providers, facters, TRUE)

\* A faulty variant of ManagerWithoutMigrator: the Manager itself is handed on.
ManagerWithMigrator(m) == m

\* applyMigrations: &Manager{providers: m.providers, facters: m.facters}
ManagerWithoutMigrator(m) == Manager(m.providers, m.facters, FALSE)

\* A faulty variant of Frame: the current version is not read from the Versioner.
FrameFromZero(manager, currentVersion) ==
    [manager |-> manager, currentVersion |-> 0, idx |-> 1,
     results |-> <<>>, applied |-> FALSE]

\* One call of RunMigrations in progress: the manager it was handed,
\* currentVersion, the position of its range loop, its results, and whether
\* the migration function it is in has applied resources already.
Frame(manager, currentVersion) ==
    [manager |-> manager, currentVersion |-> currentVersion, idx |-> 1,
     results |-> <<>>, applied |-> FALSE]

Top == stack[Len(stack)]

\* The ApplyCtx call on the Manager with the migrator now running or, when
\* none is running, about to start.
ThisRun == IF pc = "resources" THEN Len(mruns) ELSE Len(mruns) + 1

\* The results and errors migration functions return (a function that
\* returns no error returns the results of its Apply), and the error of Set.
AppliedResults == <<ApplyResult(ActionUpdate, "old-file.txt", Nil)>>
MigrationResults == {<<>>, AppliedResults}
MigrationFailed == <<"failed">>
SetFailed == <<"cannot save version">>

\* panic("adding migration for a smaller version")
PanicSmallerVersion == <<"adding migration for a smaller version">>

\* An entry of the history of the migrator: a call of AddMigration, of
\* Versioner.Current, of a migration function (with the Manager handed to
\* it), of Manager.Apply inside one, the return of a migration function, or
\* a call of Versioner.Set.  depth is the number of RunMigrations calls in
\* progress, value the value the Versioner holds, results the results a
\* migration function returned.
Event(op, depth, manager, v, e) ==
    [op |-> op, run |-> ThisRun, depth |-> depth, manager |-> manager,
     version |-> v, err |-> e, value |-> version, results |-> <<>>]

\* The return of the migration function of version v with (r, e).
Returned(depth, manager, v, r, e) ==
    [Event("returned", depth, manager, v, e) EXCEPT !.results = r]

\* A faulty variant of AddMigration: a version equal to the last one is accepted.
AddMigrationAcceptsEqual(v) ==
    /\ pc = "construct"
    /\ Len(mlog) < MaxMigrations
    /\ IF Len(migrations) > 0 /\ v < migrations[Len(migrations)]
       THEN /\ pc' = "panic"
            /\ mlog' = Append(mlog, Event("AddMigration", 0, TopManager, v, PanicSmallerVersion))
            /\ UNCHANGED migrations
       ELSE /\ migrations' = Append(migrations, v)
            /\ mlog' = Append(mlog, Event("AddMigration", 0, TopManager, v, Nil))
            /\ UNCHANGED pc
    /\ UNCHANGED <<version, stack, mruns>>

\* Migrator.AddMigration(version, migration)
AddMigration(v) ==
    /\ pc = "construct"
    /\ Len(mlog) < MaxMigrations
    /\ IF Len(migrations) > 0 /\ v <= migrations[Len(migrations)]
       THEN /\ pc' = "panic"
            /\ mlog' = Append(mlog, Event("AddMigration", 0, TopManager, v, PanicSmallerVersion))
            /\ UNCHANGED migrations
       ELSE /\ migrations' = Append(migrations, v)
            /\ mlog' = Append(mlog, Event("AddMigration", 0, TopManager, v, Nil))
            /\ UNCHANGED pc
    /\ UNCHANGED <<version, stack, mruns>>

\* applyMigrations of manager m, called with the RunMigrations calls stk in
\* progress: without a migrator it returns (nil, nil) and applyResources
\* follows; with one, RunMigrations starts on the Manager made for it and
\* reads Current().
applyMigrations(m, stk) ==
    IF ~m.migrator
    THEN /\ stack' = stk
         /\ mlog' = Append(mlog, Event("Apply", Len(stk), m, version, Nil))
         /\ UNCHANGED pc
    ELSE /\ Len(stk) < MaxDepth
         /\ stack' = Append(stk, Frame(ManagerWithoutMigrator(m), version))
         /\ mlog' = Append(mlog, Event("Current", Len(stk) + 1, m, version, Nil))
         /\ pc' = "migrations"

\* An ApplyCtx call on the Manager with the migrator, kept as history: the
\* results and error of applyMigrations, and the results and error ApplyCtx
\* returned once it has.
ApplyRun(migrated, merr, returned, rs, e) ==
    [migrated |-> migrated, merr |-> merr, returned |-> returned, results |-> rs, err |-> e]

\* A faulty variant of ReturnMigrations: ApplyCtx goes on to applyResources
\* whatever RunMigrations returned.
ReturnMigrationsGoesOn(rs, e) ==
    IF Len(stack) = 1
    THEN /\ stack' = <<>>
         /\ log' = <<>>
         /\ pc' = "resources"
         /\ idx' = 1
         /\ results' = <<>>
         /\ err' = Nil
         /\ mruns' = Append(mruns, ApplyRun(rs, e, FALSE, <<>>, Nil))
    ELSE /\ stack' = SubSeq(stack, 1, Len(stack) - 1)
         /\ pc' = "body"
         /\ UNCHANGED <<idx, results, err, log, mruns>>

\* RunMigrations returns (rs, e).  To ApplyCtx of the Manager with the
\* migrator: an error is wrapped and returned with the results, otherwise
\* applyResources starts.  To an Apply inside a migration function: that
\* function goes on.
ReturnMigrations(rs, e) ==
    IF Len(stack) = 1
    THEN /\ stack' = <<>>
         /\ log' = <<>>
         /\ IF e # Nil
            THEN /\ pc' = "done"
                 /\ results' = rs
                 /\ err' = Wrap("migrator failed", e)
                 /\ mruns' = Append(mruns, ApplyRun(rs, e, TRUE, rs, Wrap("migrator failed", e)))
                 /\ UNCHANGED idx
            ELSE /\ pc' = "resources"
                 /\ idx' = 1
                 /\ results' = <<>>
                 /\ err' = Nil
                 /\ mruns' = Append(mruns, ApplyRun(rs, Nil, FALSE, <<>>, Nil))
    ELSE /\ stack' = SubSeq(stack, 1, Len(stack) - 1)
         /\ pc' = "body"
         /\ UNCHANGED <<idx, results, err, log, mruns>>

\* A faulty variant of Skipped: the entry after the current version is skipped too.
SkippedNext(v, currentVersion) == v <= currentVersion + 1

\* A faulty variant of Skipped: no entry is skipped.
SkippedNever(v, currentVersion) == FALSE

\* A faulty variant of Skipped: the entry of the current version is not skipped.
SkippedBelow(v, currentVersion) == v < currentVersion

\* if entry.version <= currentVersion { continue }
Skipped(v, currentVersion) == v <= currentVersion

InMigrations == pc = "migrations" /\ Top.idx <= Len(migrations)

\* entry.version <= currentVersion: continue
SkipMigration ==
    /\ InMigrations
    /\ Skipped(migrations[Top.idx], Top.currentVersion)
    /\ stack' = [stack EXCEPT ![Len(stack)].idx = @ + 1]
    /\ UNCHANGED <<pc, idx, results, err, log, mruns, mlog, version, migrations>>

\* entry.migration(manager) is called.
CallMigration ==
    /\ InMigrations
    /\ ~Skipped(migrations[Top.idx], Top.currentVersion)
    /\ pc' = "body"
    /\ mlog' = Append(mlog, Event("migration", Len(stack), Top.manager,
                                  migrations[Top.idx], Nil))
    /\ UNCHANGED <<stack, idx, results, err, log, mruns, version, migrations>>

\* The migration function calls Apply on the Manager it was handed.
MigrationApplies ==
    /\ pc = "body"
    /\ ~Top.applied
    /\ applyMigrations(Top.manager, [stack EXCEPT ![Len(stack)].applied = TRUE])
    /\ UNCHANGED <<idx, results, err, log, mruns, version, migrations>>

\* A faulty variant of MigrationFails: the error is dropped and the loop goes on.
MigrationFailsContinues(r) ==
    /\ pc = "body"
    /\ Top.applied
    /\ mlog' = Append(mlog, Returned(Len(stack), Top.manager,
                                  migrations[Top.idx], r, MigrationFailed))
    /\ stack' = [stack EXCEPT ![Len(stack)] =
                     [@ EXCEPT !.idx = @ + 1, !.results = @ \o r, !.applied = FALSE]]
    /\ pc' = "migrations"
    /\ UNCHANGED <<idx, results, err, log, mruns, version, migrations>>

\* A faulty variant of MigrationFails: the version is saved although the function failed.
MigrationFailsSetsVersion(r) ==
    /\ pc = "body"
    /\ Top.applied
    /\ mlog' = mlog \o <<Returned(Len(stack), Top.manager,
                               migrations[Top.idx], r, MigrationFailed),
                         [Event("Set", Len(stack), Top.manager, migrations[Top.idx], Nil)
                             EXCEPT !.value = migrations[Top.idx]]>>
    /\ version' = migrations[Top.idx]
    /\ ReturnMigrations(Top.results \o r, MigrationFailed)
    /\ UNCHANGED migrations

\* The migration function returns (r, err) with an error: RunMigrations
\* returns the results and the error.
MigrationFails(r) ==
    /\ pc = "body"
    /\ Top.applied
    /\ mlog' = Append(mlog, Returned(Len(stack), Top.manager,
                                  migrations[Top.idx], r, MigrationFailed))
    /\ ReturnMigrations(Top.results \o r, MigrationFailed)
    /\ UNCHANGED <<version, migrations>>

\* The migration function returns (r, nil) and Set returns an error.
SetFails(r) ==
    /\ pc = "body"
    /\ Top.applied
    /\ mlog' = mlog \o <<Returned(Len(stack), Top.manager, migrations[Top.idx], r, Nil),
                         Event("Set", Len(stack), Top.manager, migrations[Top.idx], SetFailed)>>
    /\ ReturnMigrations(Top.results \o r,
                        Wrap("failed to save migration version", SetFailed))
    /\ UNCHANGED <<version, migrations>>

\* The migration function returns (r, nil) and Set(entry.version) succeeds:
\* the loop moves to the next entry.
MigrationApplied(r) ==
    /\ pc = "body"
    /\ Top.applied
    /\ mlog' = mlog \o <<Returned(Len(stack), Top.manager, migrations[Top.idx], r, Nil),
                         [Event("Set", Len(stack), Top.manager, migrations[Top.idx], Nil)
                             EXCEPT !.value = migrations[Top.idx]]>>
    /\ version' = migrations[Top.idx]
    /\ stack' = [stack EXCEPT ![Len(stack)] =
                     [@ EXCEPT !.idx = @ + 1, !.results = @ \o r, !.applied = FALSE]]
    /\ pc' = "migrations"
    /\ UNCHANGED <<idx, results, err, log, mruns, migrations>>

\* The range loop has ended: RunMigrations returns (results, nil).
MigrationsEnd ==
    /\ pc = "migrations"
    /\ Top.idx > Len(migrations)
    /\ ReturnMigrations(Top.results, Nil)
    /\ UNCHANGED <<mlog, version, migrations>>

\* A faulty variant of ApplyCtxReturns: the results of applyResources come first.
ApplyCtxReturnsResourcesFirst ==
    mruns' = [mruns EXCEPT ![Len(mruns)] =
                 ApplyRun(@.migrated, @.merr, TRUE, results' \o @.migrated, err')]

\* ApplyCtx returns what applyResources returned, after the results of
\* applyMigrations.
ApplyCtxReturns ==
    mruns' = [mruns EXCEPT ![Len(mruns)] =
                 ApplyRun(@.migrated, @.merr, TRUE, @.migrated \o results', err')]

----------------------------------------------------------------------------
(* The Manager specification: one ApplyCtx over resources whose Get,       *)
(* Found, NeedsUpdate, Create and Update may answer anything the Resource  *)
(* interface allows, with a context the caller may cancel at any moment.   *)

Init ==
    /\ resources \in {[i \in 1..n |-> i] : n \in 0..MaxResources}
    /\ ctxCancelled = FALSE
    /\ pc = "idle"
    /\ idx = 1
    /\ results = <<>>
    /\ err = Nil
    /\ log = <<>>
    /\ runs = <<>>
    /\ fs = <<>>
    /\ NewManager
    /\ NoMigrator
    /\ NoWrite

\* The caller's cancel(): before the call or while it runs.
Cancel ==
    /\ ~ctxCancelled
    /\ pc \in {"idle", "resources"}
    /\ ctxCancelled' = TRUE
    /\ UNCHANGED <<resources, pc, idx, results, err, log, runs, fs>>
    /\ UNCHANGED <<registryVars, migratorVars, writeVars>>

Start == pc = "idle" /\ ApplyCtx /\ UNCHANGED <<fs, registryVars, migratorVars, writeVars>>

StubGetFails == \E e \in ResourceErrors : GetFails(e) /\ UNCHANGED <<fs, registryVars, migratorVars, writeVars>>

StubCreate == \E e \in ResourceErrors \cup {Nil} : CreateResource(e) /\ UNCHANGED <<fs, registryVars, migratorVars, writeVars>>

StubNeedsUpdateFails ==
    \E b \in BOOLEAN, e \in ResourceErrors : NeedsUpdateFails(b, e) /\ UNCHANGED <<fs, registryVars, migratorVars, writeVars>>

StubUpdate == \E e \in ResourceErrors \cup {Nil} : UpdateResource(e) /\ UNCHANGED <<fs, registryVars, migratorVars, writeVars>>

StubNoAction == NoAction /\ UNCHANGED <<fs, registryVars, migratorVars, writeVars>>

Return == LoopEnds /\ UNCHANGED <<fs, registryVars, migratorVars, writeVars>>

Next ==
    \/ Cancel
    \/ Start
    \/ StubGetFails
    \/ StubCreate
    \/ StubNeedsUpdateFails
    \/ StubUpdate
    \/ StubNoAction
    \/ Return

Spec == Init /\ [][Next]_vars

----------------------------------------------------------------------------
(* file.go: the File resource over a file system.                          *)
(*                                                                         *)
(* The file system is the tree under the FileProvider prefix: the prefix   *)
(* directory itself always exists, and below it the paths "d" and "d/f".   *)
(* Permission bits are recorded but not enforced (the process may access   *)
(* every path, as a privileged process does), and the umask clears none of *)
(* the bits used here.                                                     *)

Root == "."
Paths == {"d", "d/f"}

\* filepath.Dir, relative to the prefix
Dir(p) == IF p = "d/f" THEN "d" ELSE Root

\* Permission modes, in decimal: 0644, 0755, 0600 (os.CreateTemp), 0600 (a
\* declared Mode), 0111, 0777.
DefaultFileMode == 420
DefaultDirMode == 493
TempFileMode == 384
OwnerOnlyMode == 384
ExecBits == 73
ModePerm == 511

\* The contents a file may hold; md5 is modelled as an injective digest.
Contents == {"", "A", "B"}
Md5(c) == <<"md5", c>>
NoMD5 == <<>>

NoEnt == [kind |-> "none"]
RegularFile(c, m) == [kind |-> "file", content |-> c, mode |-> m]
Directory(m) == [kind |-> "dir", mode |-> m]

\* Errors of the operating system and of file.go.
ENOENT == <<"no such file or directory">>
ENOTDIR == <<"not a directory">>
ENOTEMPTY == <<"directory not empty">>
EEXIST == <<"file exists">>
EISDIR == <<"is a directory">>
ErrMd5Differs == <<"md5 checksum of content differs">>
ErrCannotReplace == <<"cannot replace file">>
ErrContent == <<"content error">>

\* The outcome of an operation on the file system: its error and the file
\* system it leaves.
Outcome(e, fsys) == [err |-> e, fs |-> fsys]

IsDirAt(fsys, p) == p = Root \/ fsys[p].kind = "dir"

ExistsAt(fsys, p) == p = Root \/ fsys[p].kind # "none"

\* The error of resolving the directory part of p, Nil when it is a directory.
DirError(fsys, p) ==
    IF IsDirAt(fsys, Dir(p)) THEN Nil
    ELSE IF ExistsAt(fsys, Dir(p)) THEN ENOTDIR
    ELSE ENOENT

Children(fsys, p) == {q \in Paths : Dir(q) = p /\ fsys[q].kind # "none"}

RECURSIVE BitOr(_, _)
BitOr(a, b) ==
    IF a = 0 THEN b
    ELSE IF b = 0 THEN a
    ELSE (IF a % 2 = 1 \/ b % 2 = 1 THEN 1 ELSE 0) + 2 * BitOr(a \div 2, b \div 2)

\* fs.FileMode.Perm
Perm(m) == m % (ModePerm + 1)

\* os.Stat: [err, info]
Stat(fsys, p) ==
    IF DirError(fsys, p) # Nil THEN [err |-> Wrap("stat", DirError(fsys, p)), info |-> NoEnt]
    ELSE IF fsys[p].kind = "none" THEN [err |-> Wrap("stat", ENOENT), info |-> NoEnt]
    ELSE [err |-> Nil, info |-> fsys[p]]

\* os.Remove: unlinks a file or removes an empty directory.
Remove(fsys, p) ==
    IF DirError(fsys, p) # Nil THEN Outcome(Wrap("remove", DirError(fsys, p)), fsys)
    ELSE IF fsys[p].kind = "none" THEN Outcome(Wrap("remove", ENOENT), fsys)
    ELSE IF Children(fsys, p) # {} THEN Outcome(Wrap("remove", ENOTEMPTY), fsys)
    ELSE Outcome(Nil, [fsys EXCEPT ![p] = NoEnt])

\* os.RemoveAll: removes p and everything below it; a missing path is no error.
RemoveAll(fsys, p) ==
    IF DirError(fsys, p) = ENOTDIR THEN Outcome(Wrap("unlinkat", ENOTDIR), fsys)
    ELSE Outcome(Nil, [q \in Paths |-> IF q = p \/ Dir(q) = p THEN NoEnt ELSE fsys[q]])

\* os.MkdirAll(p, m): creates p and its missing parents; an existing
\* directory is no error.
MkdirAll(fsys, p, m) ==
    IF p = Root \/ fsys[p].kind = "dir" THEN Outcome(Nil, fsys)
    ELSE IF fsys[p].kind = "file" THEN Outcome(Wrap("mkdir", ENOTDIR), fsys)
    ELSE IF DirError(fsys, p) = ENOTDIR THEN Outcome(Wrap("mkdir", ENOTDIR), fsys)
    ELSE Outcome(Nil, [q \in Paths |->
                          IF q = p \/ (q = Dir(p) /\ fsys[q].kind = "none")
                          THEN Directory(m) ELSE fsys[q]])

\* os.Mkdir(p, m)
Mkdir(fsys, p, m) ==
    IF DirError(fsys, p) # Nil THEN Outcome(Wrap("mkdir", DirError(fsys, p)), fsys)
    ELSE IF fsys[p].kind # "none" THEN Outcome(Wrap("mkdir", EEXIST), fsys)
    ELSE Outcome(Nil, [fsys EXCEPT ![p] = Directory(m)])

\* os.OpenFile(p, os.O_CREATE, m) followed by Close: creates an empty file
\* when p is missing, leaves an existing file as it is, fails on a directory.
OpenFileCreate(fsys, p, m) ==
    IF DirError(fsys, p) # Nil THEN Outcome(Wrap("open", DirError(fsys, p)), fsys)
    ELSE IF fsys[p].kind = "dir" THEN Outcome(Wrap("open", EISDIR), fsys)
    ELSE IF fsys[p].kind = "file" THEN Outcome(Nil, fsys)
    ELSE Outcome(Nil, [fsys EXCEPT ![p] = RegularFile("", m)])

\* os.Chmod(p, m)
Chmod(fsys, p, m) ==
    IF DirError(fsys, p) # Nil THEN Outcome(Wrap("chmod", DirError(fsys, p)), fsys)
    ELSE IF fsys[p].kind = "none" THEN Outcome(Wrap("chmod", ENOENT), fsys)
    ELSE Outcome(Nil, [fsys EXCEPT ![p].mode = m])

\* What reading an open path to its end yields: io.Copy from a directory
\* fails at once and its error is dropped, leaving the digest of no bytes.
ReadAll(fsys, p) == IF fsys[p].kind = "file" THEN fsys[p].content ELSE ""

\* A FileContent writes data to the writer it is given and returns err.
NoContent == [nil |-> TRUE]
FileContent(data, e) == [nil |-> FALSE, data |-> data, err |-> e]
\* FileContentLiteral: fmt.Fprintf(w, content) writes content as it is, the
\* contents of the model holding no formatting verb.
FileContentLiteral(c) == FileContent(c, Nil)

\* File.Mode unset (a nil *fs.FileMode)
NoMode == -1

\* The File declarations of the model.  The provider is the one registered
\* with the prefix directory; Path is relative to it.
Files ==
    [Path : Paths,
     Absent : BOOLEAN,
     Mode : {NoMode, OwnerOnlyMode},
     Directory : BOOLEAN,
     CreateParent : BOOLEAN,
     Force : BOOLEAN,
     Content : {NoContent, FileContentLiteral("A"), FileContentLiteral("B"),
                FileContent("", ErrContent)},
     KeepExistingContent : BOOLEAN,
     MD5 : {NoMD5, Md5("A")}]

\* File.mode
FileModeOf(f) ==
    IF f.Mode # NoMode THEN f.Mode
    ELSE IF f.Directory THEN DefaultDirMode
    ELSE DefaultFileMode

\* FileState: info is the fs.FileInfo (NoEnt: nil), content whether the
\* content func is set.
FileState(info, expected, content) ==
    [info |-> info, expected |-> expected, content |-> content]

\* File.Get: [err, state]
FileGet(f, fsys) ==
    LET st == Stat(fsys, f.Path) IN
    IF ErrorsIs(st.err, ENOENT)
    THEN [err |-> Nil, state |-> FileState(NoEnt, ~f.Absent, FALSE)]
    ELSE IF st.err # Nil
    THEN [err |-> st.err, state |-> FileState(NoEnt, ~f.Absent, FALSE)]
    ELSE [err |-> Nil, state |-> FileState(st.info, ~f.Absent, TRUE)]

\* FileState.Found
FileFound(state) == state.info # NoEnt \/ ~state.expected

\* A faulty variant of FileNeedsUpdate: a declared MD5 that equals the checksum of the
\* current content does not end the comparison.
FileNeedsUpdateIgnoresMD5(state, f, fsys) ==
    LET answer(v) == [value |-> v, err |-> Nil, panic |-> FALSE]
        current == Md5(ReadAll(fsys, f.Path))
    IN
    IF f.Absent /\ state.info # NoEnt THEN answer(TRUE)
    ELSE IF state.info # NoEnt /\ f.Directory # (state.info.kind = "dir") THEN answer(TRUE)
    ELSE IF state.info # NoEnt /\ Perm(FileModeOf(f)) # Perm(state.info.mode) THEN answer(TRUE)
    ELSE IF ~f.Content.nil /\ ~f.KeepExistingContent
    THEN IF ~state.content THEN [value |-> FALSE, err |-> Nil, panic |-> TRUE]
         ELSE answer(current # Md5(f.Content.data))
    ELSE answer(FALSE)

\* FileState.NeedsUpdate: [value, err, panic].  Calling the nil content func
\* of a state without info is a nil dereference.
FileNeedsUpdate(state, f, fsys) ==
    LET answer(v) == [value |-> v, err |-> Nil, panic |-> FALSE]
        current == Md5(ReadAll(fsys, f.Path))
    IN
    IF f.Absent /\ state.info # NoEnt THEN answer(TRUE)
    ELSE IF state.info # NoEnt /\ f.Directory # (state.info.kind = "dir") THEN answer(TRUE)
    ELSE IF state.info # NoEnt /\ Perm(FileModeOf(f)) # Perm(state.info.mode) THEN answer(TRUE)
    ELSE IF ~f.Content.nil /\ ~f.KeepExistingContent
    THEN IF ~state.content THEN [value |-> FALSE, err |-> Nil, panic |-> TRUE]
         ELSE IF f.MD5 # NoMD5 /\ f.MD5 = current THEN answer(FALSE)
         ELSE answer(current # Md5(f.Content.data))
    ELSE answer(FALSE)

\* safeWriteContent: the content goes to a temporary file in the directory
\* of path; it replaces path only when the producer and the checksum agree.
\* The deferred os.Remove leaves no temporary file on any route.
SafeWriteContent(fsys, path, content, md5Sum) ==
    IF DirError(fsys, path) # Nil
    THEN Outcome(Wrap("open", DirError(fsys, path)), fsys)
    ELSE IF content.err # Nil THEN Outcome(content.err, fsys)
    ELSE IF md5Sum # NoMD5 /\ md5Sum # Md5(content.data) THEN Outcome(ErrMd5Differs, fsys)
    ELSE LET removed == Remove(fsys, path) IN
         IF removed.err # Nil /\ ~ErrorsIs(removed.err, ENOENT)
         THEN Outcome(ErrCannotReplace, fsys)
         ELSE Outcome(Nil, [removed.fs EXCEPT
                               ![path] = RegularFile(content.data, TempFileMode)])

\* File.createFile
CreateFile(f, fsys) ==
    LET parent == IF f.CreateParent
                  THEN MkdirAll(fsys, Dir(f.Path), BitOr(FileModeOf(f), ExecBits))
                  ELSE Outcome(Nil, fsys)
    IN
    IF parent.err # Nil
    THEN Outcome(Wrap("failed to create parent directory", parent.err), fsys)
    ELSE IF f.Directory THEN Mkdir(parent.fs, f.Path, FileModeOf(f))
    ELSE LET created == OpenFileCreate(parent.fs, f.Path, DefaultFileMode) IN
         IF created.err # Nil
         THEN Outcome(Wrap("failed to create file", created.err), parent.fs)
         ELSE created

\* File.writeContent
WriteContent(f, fsys) ==
    IF f.Content.nil THEN Outcome(Nil, fsys)
    ELSE SafeWriteContent(fsys, f.Path, f.Content, f.MD5)

\* File.ensureMode
EnsureMode(f, fsys) ==
    LET changed == Chmod(fsys, f.Path, FileModeOf(f)) IN
    IF changed.err # Nil THEN Outcome(Wrap("failed to set mode", changed.err), fsys)
    ELSE changed

\* File.Create
FileCreate(f, fsys) ==
    LET created == CreateFile(f, fsys) IN
    IF created.err # Nil THEN created
    ELSE LET written == WriteContent(f, created.fs) IN
         IF written.err # Nil THEN written
         ELSE EnsureMode(f, written.fs)

\* File.Update
FileUpdate(f, fsys) ==
    IF f.Absent THEN Remove(fsys, f.Path)
    ELSE IF f.Force
    THEN LET st == Stat(fsys, f.Path) IN
         IF st.err = Nil /\ f.Directory # (st.info.kind = "dir")
         THEN LET removed == RemoveAll(fsys, f.Path) IN
              IF removed.err # Nil THEN removed ELSE FileCreate(f, removed.fs)
         ELSE FileCreate(f, fsys)
    ELSE LET written == IF f.KeepExistingContent THEN Outcome(Nil, fsys)
                        ELSE WriteContent(f, fsys)
         IN
         IF written.err # Nil THEN written ELSE EnsureMode(f, written.fs)

----------------------------------------------------------------------------
(* The File specification: a Manager applies one File declaration to a     *)
(* file system, MaxApplies times in a row, nothing else touching the file  *)
(* system in between.                                                      *)

Entries ==
    {NoEnt}
    \cup {RegularFile(c, m) : c \in Contents, m \in {DefaultFileMode, OwnerOnlyMode}}
    \cup {Directory(DefaultDirMode)}

FileSystems ==
    {fsys \in [Paths -> Entries] :
        \A p \in Paths : fsys[p].kind # "none" => IsDirAt(fsys, Dir(p))}

InitFile ==
    /\ resources \in {<<f>> : f \in Files}
    /\ fs \in FileSystems
    /\ ctxCancelled = FALSE
    /\ pc = "idle"
    /\ idx = 1
    /\ results = <<>>
    /\ err = Nil
    /\ log = <<>>
    /\ runs = <<>>
    /\ NewManager
    /\ NoMigrator
    /\ NoWrite

\* Manager.Apply, for the first time or again after it returned.
FileStart ==
    /\ Len(runs) < MaxApplies
    /\ ApplyCtx
    /\ UNCHANGED <<fs, registryVars, migratorVars, writeVars>>

\* Get cannot stat the path.
FileGetFails ==
    /\ InLoop
    /\ LET got == FileGet(resources[idx], fs) IN
       /\ got.err # Nil
       /\ GetFails(got.err)
    /\ UNCHANGED <<fs, registryVars, migratorVars, writeVars>>

\* The state is not found: File.Create runs.
FileCreates ==
    /\ InLoop
    /\ LET f == resources[idx]
           got == FileGet(f, fs)
           created == FileCreate(f, fs)
       IN
       /\ got.err = Nil
       /\ ~FileFound(got.state)
       /\ CreateResource(created.err)
       /\ fs' = created.fs
    /\ UNCHANGED <<registryVars, migratorVars, writeVars>>

\* NeedsUpdate dereferences the nil content func: the process panics inside
\* Apply, which never returns.
FilePanics ==
    /\ InLoop
    /\ LET f == resources[idx]
           got == FileGet(f, fs)
       IN
       /\ got.err = Nil
       /\ FileFound(got.state)
       /\ FileNeedsUpdate(got.state, f, fs).panic
    /\ pc' = "panic"
    /\ UNCHANGED <<resources, ctxCancelled, idx, results, err, log, runs, fs>>
    /\ UNCHANGED <<registryVars, migratorVars, writeVars>>

\* The state is found and needs an update: File.Update runs.
FileUpdates ==
    /\ InLoop
    /\ LET f == resources[idx]
           got == FileGet(f, fs)
           needs == FileNeedsUpdate(got.state, f, fs)
           updated == FileUpdate(f, fs)
       IN
       /\ got.err = Nil
       /\ FileFound(got.state)
       /\ ~needs.panic
       /\ needs.err = Nil
       /\ needs.value
       /\ UpdateResource(updated.err)
       /\ fs' = updated.fs
    /\ UNCHANGED <<registryVars, migratorVars, writeVars>>

\* The state is found and needs no update.
FileNoAction ==
    /\ InLoop
    /\ LET f == resources[idx]
           got == FileGet(f, fs)
           needs == FileNeedsUpdate(got.state, f, fs)
       IN
       /\ got.err = Nil
       /\ FileFound(got.state)
       /\ ~needs.panic
       /\ needs.err = Nil
       /\ ~needs.value
       /\ NoAction
    /\ UNCHANGED <<fs, registryVars, migratorVars, writeVars>>

FileReturn == LoopEnds /\ UNCHANGED <<fs, registryVars, migratorVars, writeVars>>

NextFile ==
    \/ FileStart
    \/ FileGetFails
    \/ FileCreates
    \/ FilePanics
    \/ FileUpdates
    \/ FileNoAction
    \/ FileReturn

SpecFile == InitFile /\ [][NextFile]_vars

----------------------------------------------------------------------------
(* The Provider specification: providers are registered in a new Manager   *)
(* and looked up, in any order.                                            *)

\* No Apply is running and none has run.
NothingApplied ==
    /\ resources = <<>>
    /\ ctxCancelled = FALSE
    /\ pc = "idle"
    /\ idx = 1
    /\ results = <<>>
    /\ err = Nil
    /\ log = <<>>
    /\ runs = <<>>
    /\ fs = <<>>

applyVars == <<resources, ctxCancelled, pc, idx, results, err, log, runs, fs>>

InitProviders == NothingApplied /\ NewManager /\ NoMigrator /\ NoWrite

Register ==
    \E name \in ProviderNames, provider \in Providers :
        RegisterProvider(name, provider) /\ UNCHANGED <<applyVars, migratorVars, writeVars>>

LookUpProvider ==
    \E name \in ProviderNames, target \in Targets :
        CallProvider(name, target) /\ UNCHANGED <<applyVars, migratorVars, writeVars>>

NextProviders == Register \/ LookUpProvider

SpecProviders == InitProviders /\ [][NextProviders]_vars

----------------------------------------------------------------------------
(* The Fact specification: facters are added to a new Manager, the process *)
(* sets environment variables, and facts are looked up, in any order.      *)

InitFacts == NothingApplied /\ NewManager /\ NoMigrator /\ NoWrite

Add == \E facter \in Facters : AddFacter(facter) /\ UNCHANGED <<applyVars, migratorVars, writeVars>>

SetsEnv ==
    \E name \in EnvNames, value \in EnvValues :
        Setenv(name, value) /\ UNCHANGED <<applyVars, migratorVars, writeVars>>

LookUpFact == \E name \in FactNames : CallFact(name) /\ UNCHANGED <<applyVars, migratorVars, writeVars>>

NextFacts == Add \/ SetsEnv \/ LookUpFact

SpecFacts == InitFacts /\ [][NextFacts]_vars

----------------------------------------------------------------------------
(* The Migrator specification: migrations are added to a Migrator over a   *)
(* Versioner holding some version, the Migrator is attached to a Manager,  *)
(* and ApplyCtx is called on that Manager MaxRuns times in a row.          *)

SomeStaticFacter == StaticFacter("k" :> "a")

\* The Manager before the migrator is attached: new, or with a provider and
\* a facter registered.
InitManager ==
    \/ NewManager
    \/ /\ providers = ("file" :> ProviderValue(FileProviderPtr, "one"))
       /\ facters = <<SomeStaticFacter>>
       /\ env = <<>>
       /\ registered =
             <<[op |-> "RegisterProvider", name |-> "file",
                value |-> ProviderValue(FileProviderPtr, "one")],
               [op |-> "AddFacter", value |-> SomeStaticFacter]>>
       /\ lookup = NoLookup

InitMigrate ==
    /\ resources = <<"new-file.txt">>
    /\ ctxCancelled = FALSE
    /\ pc = "construct"
    /\ idx = 1
    /\ results = <<>>
    /\ err = Nil
    /\ log = <<>>
    /\ runs = <<>>
    /\ fs = <<>>
    /\ InitManager
    /\ migrations = <<>>
    /\ version \in Versions
    /\ stack = <<>>
    /\ mlog = <<>>
    /\ mruns = <<>>
    /\ NoWrite

otherVars == <<resources, ctxCancelled, runs, fs, registryVars, writeVars>>

MigrateAdd ==
    \E v \in Versions :
        AddMigration(v) /\ UNCHANGED <<otherVars, idx, results, err, log>>

\* Manager.ApplyCtx on the Manager with the migrator.
MigrateStart ==
    /\ pc \in {"construct", "done"}
    /\ Len(mruns) < MaxRuns
    /\ applyMigrations(TopManager, <<>>)
    /\ UNCHANGED <<otherVars, idx, results, err, log, mruns, version, migrations>>

MigrateSkip == SkipMigration /\ UNCHANGED otherVars

MigrateCall == CallMigration /\ UNCHANGED otherVars

MigrateApplyInside == MigrationApplies /\ UNCHANGED otherVars

MigrateFail == \E r \in MigrationResults : MigrationFails(r) /\ UNCHANGED otherVars

MigrateSetFail == SetFails(AppliedResults) /\ UNCHANGED otherVars

MigrateApplied == MigrationApplied(AppliedResults) /\ UNCHANGED otherVars

MigrateEnd == MigrationsEnd /\ UNCHANGED otherVars

MigrateGetFails ==
    /\ GetFails(SomeError)
    /\ ApplyCtxReturns
    /\ UNCHANGED <<fs, registryVars, migrations, version, stack, mlog, writeVars>>

MigrateCreate ==
    \E e \in {Nil, SomeError} :
        CreateResource(e) /\ UNCHANGED <<fs, registryVars, migratorVars, writeVars>>

MigrateNoAction == NoAction /\ UNCHANGED <<fs, registryVars, migratorVars, writeVars>>

MigrateReturn ==
    /\ LoopEnds
    /\ ApplyCtxReturns
    /\ UNCHANGED <<fs, registryVars, migrations, version, stack, mlog, writeVars>>

NextMigrate ==
    \/ MigrateAdd
    \/ MigrateStart
    \/ MigrateSkip
    \/ MigrateCall
    \/ MigrateApplyInside
    \/ MigrateFail
    \/ MigrateSetFail
    \/ MigrateApplied
    \/ MigrateEnd
    \/ MigrateGetFails
    \/ MigrateCreate
    \/ MigrateNoAction
    \/ MigrateReturn

SpecMigrate == InitMigrate /\ [][NextMigrate]_vars

----------------------------------------------------------------------------
(* The Write specification: one File.Create or File.Update, called as the  *)
(* apply loop calls it, taken one system call at a time while another      *)
(* process reads the target path.  The temporary file of safeWriteContent  *)
(* lies in the directory of the target under a name of its own.  "A" and   *)
(* "B" stand for contents of several bytes, which the content producer     *)
(* writes in two parts.  The system calls that remove the target and       *)
(* rename the temporary file may fail for reasons outside of the model     *)
(* (an input/output error, another process).                               *)

\* The bytes of content c written so far, when some but not all are.
PartOf(c) == IF c = "A" THEN "A, in part" ELSE IF c = "B" THEN "B, in part" ELSE ""
PartlyWritten == {PartOf(c) : c \in Contents \ {""}}

EIO == <<"input/output error">>
RenameFailed == Wrap("rename", EIO)

\* The declarations of the Write specification: those with the default
\* modes that create no parent directory.
WriteFiles == {f \in Files : f.Mode = NoMode /\ ~f.CreateParent}

\* The call made: the method, the file system it started from, and whether
\* a system call has failed for a reason outside of the model.
FileCall(op, fsys, failed) == [op |-> op, before |-> fsys, failed |-> failed]

InitWrite ==
    /\ resources \in {<<f>> : f \in WriteFiles}
    /\ fs \in FileSystems
    /\ ctxCancelled = FALSE
    /\ pc = "idle"
    /\ idx = 1
    /\ results = <<>>
    /\ err = Nil
    /\ log = <<>>
    /\ runs = <<>>
    /\ NewManager
    /\ NoMigrator
    /\ NoWrite

managerVars ==
    <<resources, ctxCancelled, idx, results, log, runs, registryVars, migratorVars>>

\* File.Create or File.Update returns e.
OperationReturns(e) == pc' = "done" /\ err' = e

\* A faulty variant of GetStep: the path is opened with os.O_CREATE instead of stat'ed.
GetStepCreates ==
    /\ pc = "idle"
    /\ fs' = OpenFileCreate(fs, resources[1].Path, DefaultFileMode).fs
    /\ LET got == FileGet(resources[1], fs') IN
       /\ err' = got.err
       /\ pc' = IF got.err # Nil THEN "done" ELSE "inspected"
    /\ UNCHANGED <<tmp, call, seen, managerVars>>

\* The apply loop calls Get, which stats the path and returns the state or
\* an error; an error ends the run.
GetStep ==
    /\ pc = "idle"
    /\ LET got == FileGet(resources[1], fs) IN
       /\ err' = got.err
       /\ pc' = IF got.err # Nil THEN "done" ELSE "inspected"
    /\ UNCHANGED <<fs, tmp, call, seen, managerVars>>

\* The apply loop calls Create: Get found nothing.
CallCreate ==
    /\ pc = "inspected"
    /\ LET got == FileGet(resources[1], fs) IN
       /\ got.err = Nil
       /\ ~FileFound(got.state)
    /\ pc' = "createFile"
    /\ call' = FileCall("Create", fs, FALSE)
    /\ UNCHANGED <<err, fs, tmp, seen, managerVars>>

\* The apply loop calls Update: the state is found and needs an update.
CallUpdate ==
    /\ pc = "inspected"
    /\ LET got == FileGet(resources[1], fs)
           needs == FileNeedsUpdate(got.state, resources[1], fs)
       IN
       /\ got.err = Nil
       /\ FileFound(got.state)
       /\ ~needs.panic
       /\ needs.value
    /\ pc' = "Update"
    /\ call' = FileCall("Update", fs, FALSE)
    /\ UNCHANGED <<err, fs, tmp, seen, managerVars>>

\* File.Update up to its first call of Create, writeContent or ensureMode.
UpdateBegins ==
    /\ pc = "Update"
    /\ LET f == resources[1]
           st == Stat(fs, f.Path)
           removed == IF f.Absent THEN Remove(fs, f.Path) ELSE RemoveAll(fs, f.Path)
       IN
       IF f.Absent
       THEN fs' = removed.fs /\ OperationReturns(removed.err)
       ELSE IF f.Force
       THEN IF st.err = Nil /\ f.Directory # (st.info.kind = "dir")
            THEN IF removed.err # Nil
                 THEN OperationReturns(removed.err) /\ UNCHANGED fs
                 ELSE fs' = removed.fs /\ pc' = "createFile" /\ UNCHANGED err
            ELSE pc' = "createFile" /\ UNCHANGED <<err, fs>>
       ELSE /\ pc' = IF f.KeepExistingContent THEN "ensureMode" ELSE "writeContent"
            /\ UNCHANGED <<err, fs>>
    /\ UNCHANGED <<tmp, call, seen, managerVars>>

\* File.Create calls createFile.
CreateFileStep ==
    /\ pc = "createFile"
    /\ LET created == CreateFile(resources[1], fs) IN
       /\ fs' = created.fs
       /\ IF created.err # Nil THEN OperationReturns(created.err)
          ELSE pc' = "writeContent" /\ UNCHANGED err
    /\ UNCHANGED <<tmp, call, seen, managerVars>>

\* writeContent: nothing to write, or safeWriteContent starts with
\* os.CreateTemp in the directory of the target.
WriteContentBegins ==
    /\ pc = "writeContent"
    /\ LET f == resources[1] IN
       IF f.Content.nil
       THEN pc' = "ensureMode" /\ UNCHANGED <<err, tmp>>
       ELSE IF DirError(fs, f.Path) # Nil
       THEN OperationReturns(Wrap("open", DirError(fs, f.Path))) /\ UNCHANGED tmp
       ELSE /\ tmp' = RegularFile("", TempFileMode)
            /\ pc' = "content"
            /\ UNCHANGED err
    /\ UNCHANGED <<fs, call, seen, managerVars>>

\* A faulty variant of ContentWritesPart: the bytes go to the target path.
ContentWritesToTarget ==
    /\ pc = "content"
    /\ resources[1].Content.data # ""
    /\ tmp.content = ""
    /\ tmp' = RegularFile(PartOf(resources[1].Content.data), TempFileMode)
    /\ fs' = [fs EXCEPT ![resources[1].Path] =
                 RegularFile(PartOf(resources[1].Content.data), TempFileMode)]
    /\ UNCHANGED <<pc, err, call, seen, managerVars>>

\* content(ctx, w): the producer has written the first part of its bytes to
\* the temporary file (and to the checksum).
ContentWritesPart ==
    /\ pc = "content"
    /\ resources[1].Content.data # ""
    /\ tmp.content = ""
    /\ tmp' = RegularFile(PartOf(resources[1].Content.data), TempFileMode)
    /\ UNCHANGED <<pc, err, fs, call, seen, managerVars>>

\* The producer returns, the temporary file is closed, and the producer's
\* error and the checksum are looked at.
ContentEnds ==
    /\ pc = "content"
    /\ LET f == resources[1] IN
       /\ f.Content.data = "" \/ tmp.content = PartOf(f.Content.data)
       /\ tmp' = RegularFile(f.Content.data, TempFileMode)
       /\ IF f.Content.err # Nil
          THEN err' = f.Content.err /\ pc' = "deferred"
          ELSE IF f.MD5 # NoMD5 /\ f.MD5 # Md5(f.Content.data)
          THEN err' = ErrMd5Differs /\ pc' = "deferred"
          ELSE pc' = "remove" /\ UNCHANGED err
    /\ UNCHANGED <<fs, call, seen, managerVars>>

\* os.Remove(path): an error other than ErrNotExist ends safeWriteContent.
RemoveTarget ==
    /\ pc = "remove"
    /\ \E failure \in {Nil, EIO} :
          LET removed == IF failure # Nil THEN Outcome(Wrap("remove", failure), fs)
                         ELSE Remove(fs, resources[1].Path)
          IN
          /\ call' = [call EXCEPT !.failed = @ \/ failure # Nil]
          /\ IF removed.err # Nil /\ ~ErrorsIs(removed.err, ENOENT)
             THEN err' = ErrCannotReplace /\ pc' = "deferred" /\ UNCHANGED fs
             ELSE fs' = removed.fs /\ pc' = "rename" /\ UNCHANGED err
    /\ UNCHANGED <<tmp, seen, managerVars>>

\* os.Rename(tmpFile.Name(), path)
RenameTemp ==
    /\ pc = "rename"
    /\ \E failure \in {Nil, EIO} :
          /\ call' = [call EXCEPT !.failed = @ \/ failure # Nil]
          /\ IF failure # Nil
             THEN err' = Wrap("rename", failure) /\ UNCHANGED <<fs, tmp>>
             ELSE /\ fs' = [fs EXCEPT ![resources[1].Path] = tmp]
                  /\ tmp' = NoEnt
                  /\ UNCHANGED err
    /\ pc' = "deferred"
    /\ UNCHANGED <<seen, managerVars>>

\* A faulty variant of DeferredRemove: the temporary file is not removed.
DeferredRemoveForgotten ==
    /\ pc = "deferred"
    /\ pc' = IF err # Nil THEN "done" ELSE "ensureMode"
    /\ UNCHANGED <<err, fs, tmp, call, seen, managerVars>>

\* defer os.Remove(tmpFile.Name()): safeWriteContent returns; its error is
\* returned by writeContent and by Create or Update.
DeferredRemove ==
    /\ pc = "deferred"
    /\ tmp' = NoEnt
    /\ pc' = IF err # Nil THEN "done" ELSE "ensureMode"
    /\ UNCHANGED <<err, fs, call, seen, managerVars>>

\* ensureMode, whose error Create or Update returns.
EnsureModeStep ==
    /\ pc = "ensureMode"
    /\ LET changed == EnsureMode(resources[1], fs) IN
       /\ fs' = changed.fs
       /\ OperationReturns(changed.err)
    /\ UNCHANGED <<tmp, call, seen, managerVars>>

\* Another process stats and reads the target path.
Read ==
    /\ pc \notin {"idle", "done"}
    /\ seen' = <<Stat(fs, resources[1].Path).info>>
    /\ seen' # seen
    /\ UNCHANGED <<pc, err, fs, tmp, call, managerVars>>

NextWrite ==
    \/ GetStep
    \/ CallCreate
    \/ CallUpdate
    \/ UpdateBegins
    \/ CreateFileStep
    \/ WriteContentBegins
    \/ ContentWritesPart
    \/ ContentEnds
    \/ RemoveTarget
    \/ RenameTemp
    \/ DeferredRemove
    \/ EnsureModeStep
    \/ Read

SpecWrite == InitWrite /\ [][NextWrite]_vars

----------------------------------------------------------------------------
(* Vocabulary of the claims about one ApplyCtx. *)

Done == pc = "done"

\* The positions in log of the calls of op on the i-th declared resource.
Calls(op, i) == {k \in 1..Len(log) : log[k].op = op /\ log[k].idx = i}

Invoked(op, i) == Calls(op, i) # {}

\* Some method of the i-th declared resource was called.
Touched(i) == \E k \in 1..Len(log) : log[k].idx = i

\* The positions in results of the results referencing the i-th resource.
ResultsOf(i) == {k \in 1..Len(results) : results[k].resource = resources[i]}

\* Call k is a failed inspection (Get or NeedsUpdate returned an error).
InspectionFailed(k) == log[k].op \in {"Get", "NeedsUpdate"} /\ log[k].err # Nil

\* Call k is a failed action (Create or Update returned an error).
ActionFailed(k) == log[k].op \in {"Create", "Update"} /\ log[k].err # Nil

ActionOf(op) == IF op = "Create" THEN ActionCreate ELSE ActionUpdate

IsActionCall(c) == c.op \in {"Create", "Update"}

\* The results hold exactly one record per Create or Update call made, in
\* the order of the calls, each with the action, resource and error of its call.
ResultsMatchActions ==
    LET acts == SelectSeq(log, IsActionCall) IN
    /\ Len(results) = Len(acts)
    /\ \A k \in 1..Len(acts) :
          results[k] = ApplyResult(ActionOf(acts[k].op), resources[acts[k].idx], acts[k].err)

IsPrefix(s, t) == Len(s) <= Len(t) /\ SubSeq(t, 1, Len(s)) = s

----------------------------------------------------------------------------
\* C1: idempotence of Apply: when Apply is run twice in a row with nothing
\* else changing the file system in between, the second Apply returns (it
\* does not panic) an empty ApplyResults and a nil error.  Checked for the
\* runs that follow an Apply which itself returned a nil error.
SecondApplyIsEmpty ==
    \A n \in 1..Len(runs) :
        runs[n].err = Nil =>
            /\ n = Len(runs) => pc # "panic"
            /\ n < Len(runs) => runs[n + 1].results = <<>> /\ runs[n + 1].err = Nil

----------------------------------------------------------------------------
\* C2: for every declared resource, Create is invoked and a create result
\* recorded iff Get answered a state that is not found; Update is invoked and
\* an update result recorded iff the state is found and NeedsUpdate answered
\* true without error; Create and Update are never both invoked on it.
CreateUpdateDichotomy ==
    \A i \in 1..Len(resources) :
        /\ Invoked("Create", i) <=>
              \E k \in Calls("Get", i) : log[k].err = Nil /\ ~log[k].value
        /\ Invoked("Create", i) <=>
              \E k \in ResultsOf(i) : results[k].action = ActionCreate
        /\ Invoked("Update", i) <=>
              /\ \E k \in Calls("Get", i) : log[k].err = Nil /\ log[k].value
              /\ \E k \in Calls("NeedsUpdate", i) : log[k].err = Nil /\ log[k].value
        /\ Invoked("Update", i) <=>
              \E k \in ResultsOf(i) : results[k].action = ActionUpdate
        /\ ~(Invoked("Create", i) /\ Invoked("Update", i))

\* One run that created a resource, updated another and left a third alone.
CreateUpdateDichotomyWitness ==
    /\ Done
    /\ \E i, j, n \in 1..Len(resources) :
          /\ Invoked("Create", i)
          /\ Invoked("Update", j)
          /\ \E k \in Calls("NeedsUpdate", n) : log[k].err = Nil /\ ~log[k].value

\* C3: one Apply produces at most one result per declared resource, none for
\* a resource found and not needing an update, so never more results than
\* resources.
AtMostOneResultPerResource ==
    /\ \A i \in 1..Len(resources) : Cardinality(ResultsOf(i)) <= 1
    /\ \A i \in 1..Len(resources) :
          (\E k \in Calls("NeedsUpdate", i) : log[k].err = Nil /\ ~log[k].value)
              => ResultsOf(i) = {}
    /\ Len(results) <= Len(resources)

\* A finished run over three resources with a result for some and none for
\* one that needed no update.
AtMostOneResultWitness ==
    /\ Done
    /\ Len(resources) = MaxResources
    /\ Len(results) = Len(resources) - 1
    /\ \E i \in 1..Len(resources) :
          /\ ResultsOf(i) = {}
          /\ \E k \in Calls("NeedsUpdate", i) : log[k].err = Nil /\ ~log[k].value

\* The results reference the resources in the order of the declared list.
ResultsInDeclarationOrder ==
    \A k1, k2 \in 1..Len(results) :
        k1 < k2 =>
            \E i, j \in 1..Len(resources) :
                /\ i < j
                /\ resources[i] = results[k1].resource
                /\ resources[j] = results[k2].resource

\* C4: the results of one Apply reference a subsequence of the declared list
\* (results come in declaration order), and while the run lasts a result once
\* appended is neither removed nor altered.
ResultsAppendOnlyInOrder ==
    /\ []ResultsInDeclarationOrder
    /\ [][pc = "resources" => IsPrefix(results, results')]_vars

\* A finished run with results for the first and the last of three resources.
ResultsAppendOnlyWitness ==
    /\ Done
    /\ Len(resources) = MaxResources
    /\ Len(results) = 2
    /\ results[1].resource = resources[1]
    /\ results[2].resource = resources[Len(resources)]

\* C5 as stated: a failed Get or NeedsUpdate is recorded as an "unknown"
\* result carrying the error, and every later resource is still inspected.
InspectionErrorRecordedAndSkipped ==
    Done =>
        \A k \in 1..Len(log) :
            InspectionFailed(k) =>
                /\ \E r \in ResultsOf(log[k].idx) :
                      results[r].action = "unknown" /\ results[r].err = log[k].err
                /\ \A j \in (log[k].idx + 1)..Len(resources) : Invoked("Get", j)

\* C5 amended: a failed Get or NeedsUpdate ends the run at once: it is the
\* last call made, no result references its resource, no later resource is
\* touched, and Apply returns the results so far with that very error.
InspectionErrorInterrupts ==
    \A k \in 1..Len(log) :
        InspectionFailed(k) =>
            /\ Done
            /\ k = Len(log)
            /\ err = log[k].err
            /\ ResultsOf(log[k].idx) = {}
            /\ \A j \in (log[k].idx + 1)..Len(resources) : ~Touched(j)
            /\ ResultsMatchActions

\* Get fails on the second of three resources after the first was acted on.
InspectionErrorWitness ==
    /\ Done
    /\ Len(resources) = MaxResources
    /\ Len(results) = 1
    /\ \E k \in Calls("Get", 2) : log[k].err # Nil

\* C6 as stated: a failed Create or Update is recorded with its action and
\* error, and every later resource of the list is still processed.
ActionErrorAllLaterProcessed ==
    Done =>
        \A k \in 1..Len(log) :
            ActionFailed(k) =>
                /\ \E r \in ResultsOf(log[k].idx) :
                      /\ results[r].action = ActionOf(log[k].op)
                      /\ results[r].err = log[k].err
                /\ \A j \in (log[k].idx + 1)..Len(resources) : Invoked("Get", j)

\* C6 amended: a failed Create or Update is recorded with its action and
\* error and the loop goes on: every later resource is inspected, up to the
\* first one whose Get or NeedsUpdate returns an error.
ActionErrorDoesNotAbort ==
    Done =>
        \A k \in 1..Len(log) :
            ActionFailed(k) =>
                /\ \E r \in ResultsOf(log[k].idx) :
                      /\ results[r].action = ActionOf(log[k].op)
                      /\ results[r].err = log[k].err
                /\ \A j \in (log[k].idx + 1)..Len(resources) :
                      \/ Invoked("Get", j)
                      \/ \E k2 \in 1..Len(log) :
                            /\ InspectionFailed(k2)
                            /\ log[k].idx < log[k2].idx
                            /\ log[k2].idx < j

\* Create fails on the first of three resources and the last one is reached.
ActionErrorWitness ==
    /\ Done
    /\ Len(resources) = MaxResources
    /\ \E k \in Calls("Create", 1) : log[k].err # Nil
    /\ Invoked("Get", Len(resources))

\* C7: once the context is cancelled when a resource is about to be
\* processed, no Get, Create or Update is invoked on it or on a later one
\* (no call is made on a resource reached with the context cancelled), and
\* Apply returns an error for which errors.Is(err, context.Canceled) holds.
CancelledContextStopsApply ==
    /\ \A k \in 1..Len(log) : ~log[k].cancelled
    /\ (Done /\ \E k \in 1..Len(log) : log[k].cancelled) => ErrorsIs(err, Canceled)

\* C8: the error returned by Apply is nil iff no Get, NeedsUpdate, Create or
\* Update returned an error and no resource was reached with the context
\* cancelled.
NilErrorIffNothingFailed ==
    Done =>
        (err = Nil <=>
            /\ \A k \in 1..Len(log) : log[k].err = Nil
            /\ \A k \in 1..Len(log) : ~log[k].cancelled)

\* C9: the error returned by Apply wraps every error a resource returned:
\* errors.Is(applyErr, e) for each of them, and errors.Is(applyErr,
\* context.Canceled) when one of them wraps context.Canceled.
ApplyErrorWrapsEveryError ==
    Done =>
        \A k \in 1..Len(log) :
            log[k].err # Nil =>
                /\ ErrorsIs(err, log[k].err)
                /\ ErrorsIs(log[k].err, Canceled) => ErrorsIs(err, Canceled)

----------------------------------------------------------------------------
(* Vocabulary of the claims about the registries. *)

\* The positions, among the first n registrations, of the RegisterProvider
\* calls for name.
RegistrationsOf(name, n) ==
    {k \in 1..n : registered[k].op = "RegisterProvider" /\ registered[k].name = name}

\* The provider of the most recent of them.
LatestRegistered(name, n) ==
    registered[CHOOSE k \in RegistrationsOf(name, n) :
                   \A j \in RegistrationsOf(name, n) : j <= k].value

\* The provider has a type, and that type is assignable to type u.
TypeAssignableTo(p, u) == p # NilValue /\ AssignableTo(p.type, u)

\* C11: Provider(name, target) returns true and sets the target to the
\* registered provider when one is registered under name and its type is
\* assignable to the type the target points to; otherwise it returns false,
\* does not panic and leaves the target unchanged.  A nil target panics.
ProviderLookupTypeChecked ==
    lookup.op = "Provider" =>
        IF lookup.target = NilTarget THEN lookup.out.panic
        ELSE IF /\ RegistrationsOf(lookup.name, lookup.at) # {}
                /\ TypeAssignableTo(LatestRegistered(lookup.name, lookup.at),
                                    lookup.target.type)
        THEN /\ ~lookup.out.panic
             /\ lookup.out.found
             /\ lookup.out.target =
                   PointerTo(lookup.target.type, LatestRegistered(lookup.name, lookup.at))
        ELSE /\ ~lookup.out.panic
             /\ ~lookup.out.found
             /\ lookup.out.target = lookup.target

\* C12: after any sequence of RegisterProvider calls, Provider(name, target)
\* with a target that can hold it yields the provider of the most recent
\* RegisterProvider call for that name, whatever was registered under other
\* names before or after.
LatestRegistrationWins ==
    (/\ lookup.op = "Provider"
     /\ lookup.target # NilTarget
     /\ RegistrationsOf(lookup.name, lookup.at) # {}
     /\ LatestRegistered(lookup.name, lookup.at) \in ValuesOf(lookup.target.type))
        => /\ ~lookup.out.panic
           /\ lookup.out.found
           /\ lookup.out.target.value = LatestRegistered(lookup.name, lookup.at)

\* The positions, among the first n registrations, of the AddFacter calls
\* whose facter defines name in the environment environ.
FactersDefining(name, environ, n) ==
    {k \in 1..n : /\ registered[k].op = "AddFacter"
                  /\ FacterFact(registered[k].value, environ, name).found}

\* C13: after any sequence of AddFacter calls, Fact(k) returns the value of k
\* from the most recently added facter that defines k, with found = true,
\* and ("", false) when no added facter defines k.
FactShadowing ==
    lookup.op = "Fact" =>
        LET defining == FactersDefining(lookup.name, lookup.env, lookup.at) IN
        IF defining = {} THEN lookup.out = Fact("", FALSE)
        ELSE LET last == CHOOSE k \in defining : \A j \in defining : j <= k IN
             lookup.out =
                 Fact(FacterFact(registered[last].value, lookup.env, lookup.name).value, TRUE)

\* Fact("k") answers "b" after a facter defining k as "a", then one defining
\* it as "b", then one that does not define it were added.
FactShadowingWitness ==
    /\ lookup.op = "Fact"
    /\ lookup.name = "k"
    /\ lookup.at = 3
    /\ FacterFact(registered[1].value, lookup.env, "k") = Fact("a", TRUE)
    /\ FacterFact(registered[2].value, lookup.env, "k") = Fact("b", TRUE)
    /\ ~FacterFact(registered[3].value, lookup.env, "k").found
    /\ lookup.out = Fact("b", TRUE)

----------------------------------------------------------------------------
(* Vocabulary of the claims about the Migrator. *)

\* The ApplyCtx calls on the Manager with the migrator made so far.
RunsStarted == {n \in 1..MaxRuns : \E k \in 1..Len(mlog) : mlog[k].op = "Current" /\ mlog[k].run = n}

\* Those whose RunMigrations has returned.
RunsMigrated == 1..Len(mruns)

\* What Current() answered at the start of RunMigrations in the n-th of them.
CurrentAt(n) ==
    mlog[CHOOSE k \in 1..Len(mlog) :
             mlog[k].op = "Current" /\ mlog[k].run = n /\ mlog[k].depth = 1].version

\* The positions in mlog of the events op of the n-th run.
EventsOf(op, n) == {k \in 1..Len(mlog) : mlog[k].op = op /\ mlog[k].run = n}

\* The versions of the migration functions invoked in the n-th run, in the
\* order of the calls.
InvokedIn(n) ==
    LET calls == SelectSeq(mlog, LAMBDA e : e.op = "migration" /\ e.run = n) IN
    [i \in 1..Len(calls) |-> calls[i].version]

\* The registered versions strictly greater than Current() at the start of
\* the n-th run, in the order of registration.
PendingAt(n) == SelectSeq(migrations, LAMBDA v : v > CurrentAt(n))

StrictlyIncreasing(s) == \A i, j \in 1..Len(s) : i < j => s[i] < s[j]

\* C14 as stated: RunMigrations invokes exactly the registered migrations
\* whose version is strictly greater than Current() at the start of the run,
\* in strictly increasing version order, and skips all others.
PendingMigrationsAllInvoked ==
    \A n \in RunsMigrated :
        /\ InvokedIn(n) = PendingAt(n)
        /\ StrictlyIncreasing(InvokedIn(n))

\* C14 amended: RunMigrations invokes, in strictly increasing version order,
\* registered migrations whose version is strictly greater than Current() at
\* the start of the run and no others: all of them when no migration
\* function and no Set returns an error, and otherwise those up to and
\* including the step that failed.
PendingMigrationsInvokedInOrder ==
    \A n \in RunsStarted :
        /\ IsPrefix(InvokedIn(n), PendingAt(n))
        /\ StrictlyIncreasing(InvokedIn(n))
        /\ n \in RunsMigrated =>
              IF mruns[n].merr = Nil THEN InvokedIn(n) = PendingAt(n)
              ELSE /\ InvokedIn(n) # <<>>
                   /\ \E k \in EventsOf("returned", n) \cup EventsOf("Set", n) :
                         /\ mlog[k].err # Nil
                         /\ mlog[k].version = InvokedIn(n)[Len(InvokedIn(n))]

\* Versions 1, 2 and 3 registered and Current() = 1: a run without errors
\* has invoked 2 then 3.
PendingMigrationsWitness ==
    /\ migrations = <<1, 2, 3>>
    /\ 1 \in RunsMigrated
    /\ CurrentAt(1) = 1
    /\ mruns[1].merr = Nil
    /\ InvokedIn(1) = <<2, 3>>

\* C15: Set(v) is called only right after the migration function registered
\* at version v has returned without error in the same run, and before the
\* next migration function is invoked; it is never called for a migration
\* that was skipped or whose function returned an error.
VersionSetOnlyAfterSuccess ==
    /\ \A k \in 1..Len(mlog) :
          mlog[k].op = "Set" =>
              /\ k > 1
              /\ mlog[k - 1].op = "returned"
              /\ mlog[k - 1].err = Nil
              /\ mlog[k - 1].version = mlog[k].version
              /\ mlog[k - 1].run = mlog[k].run
              /\ mlog[k].version > CurrentAt(mlog[k].run)
              /\ mlog[k].err = Nil => mlog[k].value = mlog[k].version
    /\ \A k \in 1..Len(mlog) :
          (mlog[k].op = "returned" /\ mlog[k].err = Nil) =>
              \A k2 \in (k + 1)..Len(mlog) :
                  (mlog[k2].op = "migration" /\ mlog[k2].run = mlog[k].run) =>
                      \E s \in (k + 1)..(k2 - 1) :
                          mlog[s].op = "Set" /\ mlog[s].version = mlog[k].version
    /\ \A k \in 1..Len(mlog) :
          (mlog[k].op = "returned" /\ mlog[k].err # Nil) =>
              \A s \in (k + 1)..Len(mlog) :
                  ~(mlog[s].op = "Set" /\ mlog[s].run = mlog[k].run)

\* A run skipped version 1, applied version 2 and saved it, and the function
\* of version 3 failed: Set was called once, with 2.
VersionSetWitness ==
    /\ migrations = <<1, 2, 3>>
    /\ 1 \in RunsMigrated
    /\ CurrentAt(1) = 1
    /\ \E k \in EventsOf("returned", 1) : mlog[k].version = 3 /\ mlog[k].err # Nil
    /\ {mlog[k].version : k \in EventsOf("Set", 1)} = {2}
    /\ version = 2

RECURSIVE Flatten(_)
Flatten(ss) == IF ss = <<>> THEN <<>> ELSE Head(ss) \o Flatten(Tail(ss))

\* The results the migration functions of the n-th run returned, in order.
ReturnedIn(n) ==
    LET rets == SelectSeq(mlog, LAMBDA e : e.op = "returned" /\ e.run = n) IN
    Flatten([i \in 1..Len(rets) |-> rets[i].results])

\* The version of the last Set before position k of mlog that returned
\* without error, or the value the Versioner started with.
LastPersisted(k) ==
    LET sets == {s \in 1..(k - 1) : mlog[s].op = "Set" /\ mlog[s].err = Nil} IN
    IF sets = {} THEN mlog[1].value
    ELSE mlog[CHOOSE s \in sets : \A t \in sets : t <= s].version

\* C16: when a migration function returns an error, RunMigrations stops at
\* once (nothing more is called in that run), returns the results
\* accumulated so far together with the error, and leaves the Versioner at the
\* last version persisted; the next run starts at exactly the failed
\* migration and invokes none of the earlier ones.
MigrationFailureStopsRun ==
    \A k \in 1..Len(mlog) :
        (mlog[k].op = "returned" /\ mlog[k].err # Nil) =>
            LET n == mlog[k].run IN
            /\ \A k2 \in (k + 1)..Len(mlog) : mlog[k2].run # n
            /\ n \in RunsMigrated
            /\ mruns[n].migrated = ReturnedIn(n)
            /\ mruns[n].merr = mlog[k].err
            /\ mruns[n].returned
            /\ mruns[n].results = mruns[n].migrated
            /\ ErrorsIs(mruns[n].err, mlog[k].err)
            /\ mlog[k].value = LastPersisted(k)
            /\ (n + 1) \in RunsStarted =>
                  /\ CurrentAt(n + 1) = LastPersisted(k)
                  /\ PendingAt(n + 1)[1] = mlog[k].version
                  /\ InvokedIn(n + 1) # <<>> => InvokedIn(n + 1)[1] = mlog[k].version
                  /\ \A i \in 1..Len(InvokedIn(n + 1)) :
                        InvokedIn(n + 1)[i] >= mlog[k].version

\* The first run applied version 1 and failed in version 2 with results; the
\* second run invoked version 2 first.
MigrationFailureWitness ==
    /\ 2 \in RunsStarted
    /\ InvokedIn(1) = <<1, 2>>
    /\ mruns[1].merr = MigrationFailed
    /\ Len(mruns[1].migrated) = 2
    /\ CurrentAt(2) = 1
    /\ InvokedIn(2) # <<>>
    /\ InvokedIn(2)[1] = 2

\* The value of the Versioner after the n-th run.
CursorAfter(n) == IF (n + 1) \in RunsStarted THEN CurrentAt(n + 1) ELSE version

\* The n-th run has returned from ApplyCtx and its RunMigrations had no error.
MigratedWithoutError(n) ==
    n \in RunsMigrated /\ mruns[n].merr = Nil /\ (mruns[n].returned \/ n < Len(mruns))

\* The runs after the n-th invoke no migration function and have no
\* migration results.
NothingMigratedAfter(n) ==
    \A n2 \in RunsStarted :
        n2 > n =>
            /\ InvokedIn(n2) = <<>>
            /\ n2 \in RunsMigrated => mruns[n2].migrated = <<>> /\ mruns[n2].merr = Nil

\* C17 as stated: after a run in which every pending migration and every Set
\* succeeded, the cursor equals the highest registered migration version, and
\* any further run invokes no migration function and contributes no
\* migration results.
RerunAtHighestVersion ==
    \A n \in RunsMigrated :
        (MigratedWithoutError(n) /\ migrations # <<>>) =>
            /\ CursorAfter(n) = migrations[Len(migrations)]
            /\ NothingMigratedAfter(n)

\* C17 amended: after such a run the cursor is at least the highest
\* registered migration version, and equal to it when a migration was
\* pending; any further run invokes no migration function and contributes
\* no migration results.
RerunExecutesNothing ==
    \A n \in RunsMigrated :
        (MigratedWithoutError(n) /\ migrations # <<>>) =>
            /\ CursorAfter(n) >= migrations[Len(migrations)]
            /\ PendingAt(n) # <<>> => CursorAfter(n) = migrations[Len(migrations)]
            /\ NothingMigratedAfter(n)

\* The first run applied versions 2 and 3; the second run has run its
\* migrations and returned, with the results of the resources alone.
RerunWitness ==
    /\ pc = "done"
    /\ Len(mruns) = 2
    /\ InvokedIn(1) = <<2, 3>>
    /\ mruns[1].merr = Nil
    /\ mruns[1].migrated # <<>>
    /\ version = 3
    /\ mruns[2].migrated = <<>>
    /\ mruns[2].results # <<>>

\* C18: across any sequence of runs, also those in which Set returns an
\* error, a migration function that has once returned without error is never
\* invoked again, and the cursor is advanced to its version at most once
\* (Set is called after every such return, as C15 has it).
MigrationIsOneShot ==
    \A k \in 1..Len(mlog) :
        (mlog[k].op = "returned" /\ mlog[k].err = Nil) =>
            /\ \A k2 \in (k + 1)..Len(mlog) :
                  mlog[k2].op = "migration" => mlog[k2].version # mlog[k].version
            /\ Cardinality({s \in 1..Len(mlog) :
                                /\ mlog[s].op = "Set"
                                /\ mlog[s].err = Nil
                                /\ mlog[s].version = mlog[k].version}) <= 1

\* The AddMigration calls before position k of mlog that did not panic.
AddedBefore(k) ==
    SelectSeq(SubSeq(mlog, 1, k - 1), LAMBDA e : e.op = "AddMigration" /\ e.err = Nil)

\* C19: AddMigration(version, fn) panics, and does not append, when version
\* is not strictly greater than the last-added version, and appends
\* otherwise; so the migration list is always strictly increasing by
\* version, without duplicates.
MigrationVersionsStrictlyIncreasing ==
    /\ StrictlyIncreasing(migrations)
    /\ \A k \in 1..Len(mlog) :
          mlog[k].op = "AddMigration" =>
              LET added == AddedBefore(k) IN
              mlog[k].err # Nil <=>
                  (added # <<>> /\ mlog[k].version <= added[Len(added)].version)
    /\ LET added == AddedBefore(Len(mlog) + 1) IN
       migrations = [i \in 1..Len(added) |-> added[i].version]

\* AddMigration(1) and AddMigration(2) were accepted and AddMigration(2)
\* panicked, leaving the list at 1, 2.
MigrationVersionsWitness ==
    /\ pc = "panic"
    /\ migrations = <<1, 2>>
    /\ mlog[Len(mlog)].op = "AddMigration"
    /\ mlog[Len(mlog)].version = 2
    /\ mlog[Len(mlog)].err = PanicSmallerVersion

\* C20: the Manager handed to every migration function has no migrator and
\* has the providers and facters of the Manager ApplyCtx was called on; an
\* Apply inside a migration function runs no migrations, and at most one
\* RunMigrations call is ever in progress.
MigrationsNeverNest ==
    /\ Len(stack) <= 1
    /\ \A k \in 1..Len(mlog) :
          /\ mlog[k].depth <= 1
          /\ mlog[k].op = "migration" =>
                /\ ~mlog[k].manager.migrator
                /\ mlog[k].manager.providers = providers
                /\ mlog[k].manager.facters = facters
          /\ mlog[k].op = "Current" => mlog[k].manager = TopManager

\* A migration function called Apply on the Manager it was handed, which
\* holds the registered provider and facter, and returned.
MigrationsNeverNestWitness ==
    /\ providers # <<>>
    /\ \E k \in 1..Len(mlog) :
          /\ mlog[k].op = "Apply"
          /\ mlog[k].manager = Manager(providers, facters, FALSE)
          /\ k < Len(mlog)
          /\ mlog[k + 1].op = "returned"

\* The migration functions of the n-th run that returned without error and
\* whose version Set saved, in order.
CompletedIn(n) ==
    LET sets == SelectSeq(mlog, LAMBDA e : e.op = "Set" /\ e.run = n /\ e.err = Nil) IN
    [i \in 1..Len(sets) |-> sets[i].version]

\* A Get of a declared resource has been made in the latest ApplyCtx call.
GetMade == pc \in {"resources", "done"} /\ mruns # <<>> /\ log # <<>>

\* C21: migrations run before resources: once a Get of a declared resource
\* has been made in an ApplyCtx call on a Manager with a migrator, every
\* migration pending at the start of the call has been invoked, has returned
\* without error and has had its version saved, and none runs afterwards;
\* and the results ApplyCtx returns are the results the migration functions
\* returned followed by the results of the declared resources.
MigrationsBeforeResources ==
    /\ GetMade =>
          LET n == Len(mruns) IN
          /\ mruns[n].merr = Nil
          /\ InvokedIn(n) = PendingAt(n)
          /\ CompletedIn(n) = PendingAt(n)
          /\ mruns[n].migrated = ReturnedIn(n)
    /\ \A n \in RunsMigrated :
          mruns[n].returned =>
              \E rest \in {SubSeq(mruns[n].results, Len(ReturnedIn(n)) + 1,
                                  Len(mruns[n].results))} :
                  /\ mruns[n].results = ReturnedIn(n) \o rest
                  /\ \A i \in 1..Len(rest) :
                        \E j \in 1..Len(resources) : rest[i].resource = resources[j]
                  /\ (n = Len(mruns) /\ mruns[n].merr = Nil) => rest = results

\* Two pending migrations ran and returned results, then the declared
\* resource was created: ApplyCtx returned the three results in that order.
MigrationsBeforeResourcesWitness ==
    /\ pc = "done"
    /\ mruns # <<>>
    /\ InvokedIn(Len(mruns)) = <<2, 3>>
    /\ mruns[Len(mruns)].returned
    /\ mruns[Len(mruns)].results =
          AppliedResults \o AppliedResults
              \o <<ApplyResult(ActionCreate, resources[1], Nil)>>

----------------------------------------------------------------------------
(* Vocabulary of the claims about the File resource.  In the File          *)
(* specification the one declared File is resources[1]; the step taken     *)
(* from a state satisfying InLoop is the whole of Get, Found, NeedsUpdate  *)
(* and Create or Update on it.                                             *)

TheFile == resources[1]

Target == fs[TheFile.Path]

\* The target path resolves to an existing entity.
TargetExists == DirError(fs, TheFile.Path) = Nil /\ Target.kind # "none"

\* The one result of the given action on the declared File, without error.
OneResult(action) == <<ApplyResult(action, TheFile, Nil)>>

\* C22: absence semantics of File: for a File declared Absent whose target
\* does not exist, Get reports Found() == true and Apply produces no result
\* and changes nothing; if the target exists, Apply produces exactly one
\* `update` result (without error) and the target no longer exists
\* afterwards, so that a second Apply produces no result.
AbsentSemantics ==
    [][(InLoop /\ TheFile.Absent) =>
          IF TargetExists
          THEN /\ results' = OneResult(ActionUpdate)
               /\ fs'[TheFile.Path] = NoEnt
          ELSE /\ FileGet(TheFile, fs).err = Nil
               /\ FileFound(FileGet(TheFile, fs).state)
               /\ results' = <<>>
               /\ fs' = fs
               /\ pc' = "resources"
               /\ idx' = idx + 1]_vars

\* The step is a Create of the declared File (Update likewise); Failed: it
\* returned an error.
CreateStep == InLoop /\ log' # log /\ log'[Len(log')].op = "Create"
UpdateStep == InLoop /\ log' # log /\ log'[Len(log')].op = "Update"
Failed == log'[Len(log')].err # Nil

\* C24: Create fails cleanly: if Create of a File whose target does not
\* exist returns an error, the target path is still absent afterwards, so
\* that a later Get reports Found() == false.
CreateFailsCleanly ==
    [][(CreateStep /\ Failed /\ ~TargetExists) =>
          /\ fs'[TheFile.Path] = NoEnt
          /\ ~FileFound(FileGet(TheFile, fs').state)]_vars

\* The target exists with the other type than the declared one.
TypeMismatch ==
    /\ ~TheFile.Absent
    /\ TargetExists
    /\ TheFile.Directory # (Target.kind = "dir")

\* The entry at the target path after the step has the declared type, and
\* the declared content if a content producer is declared.
DeclaredTypeAndContent ==
    LET entry == fs'[TheFile.Path] IN
    /\ entry.kind = IF TheFile.Directory THEN "dir" ELSE "file"
    /\ ~TheFile.Content.nil => (entry.kind = "file" /\ entry.content = TheFile.Content.data)

\* C27: type replacement with Force: for a File with Force set whose target
\* exists with the other type, one Apply produces exactly one `update`
\* result with no error and afterwards the on-disk type (and content, if
\* declared) matches the declaration.
ForceReplacesType ==
    [][(InLoop /\ TheFile.Force /\ TypeMismatch) =>
          /\ results' = OneResult(ActionUpdate)
          /\ DeclaredTypeAndContent]_vars

\* The entity at the target path is after the step the one it was before:
\* of the same type, with the same content and the same entries below it.
EntityKept ==
    /\ fs'[TheFile.Path].kind = Target.kind
    /\ Target.kind = "file" => fs'[TheFile.Path].content = Target.content
    /\ \A p \in Paths : Dir(p) = TheFile.Path => fs'[p] = fs[p]

\* C28: type replacement without Force is refused: for a File with Force
\* not set whose target exists with the other type (file vs. directory),
\* Update returns an error and the existing entity is neither removed nor
\* replaced.
TypeReplacementRefused ==
    [][(InLoop /\ ~TheFile.Force /\ TypeMismatch) =>
          /\ UpdateStep
          /\ Failed
          /\ EntityKept]_vars

\* The target exists as a regular file.
TargetIsFile == TargetExists /\ Target.kind = "file"

\* The declared permission bits differ from those of the target.
ModeDiffers == Perm(FileModeOf(TheFile)) # Perm(Target.mode)

\* C29: KeepExistingContent: for a File with KeepExistingContent set whose
\* target already exists as a regular file, no Apply changes the content of
\* the file, whatever the other fields of the declaration are (as long as
\* the target stays a regular file its content is the one it had); for a
\* declared file, a content difference alone produces no result, while a
\* differing permission mode produces exactly one `update` that sets the
\* declared mode and leaves the content unchanged.
KeepExistingContentKept ==
    [][(InLoop /\ TheFile.KeepExistingContent /\ TargetIsFile) =>
          /\ fs'[TheFile.Path].kind = "file" => fs'[TheFile.Path].content = Target.content
          /\ (~TheFile.Absent /\ ~TheFile.Directory) =>
                IF ModeDiffers
                THEN /\ results' = OneResult(ActionUpdate)
                     /\ fs'[TheFile.Path] = RegularFile(Target.content, FileModeOf(TheFile))
                ELSE /\ results' = <<>>
                     /\ fs' = fs]_vars

\* The permission mode the declaration asks for: Mode, or 0644 for a file
\* and 0755 for a directory when Mode is unset.
DeclaredMode ==
    IF TheFile.Mode # NoMode THEN TheFile.Mode
    ELSE IF TheFile.Directory THEN DefaultDirMode ELSE DefaultFileMode

\* C30: Create postcondition: after Create of a File (not declared absent)
\* returns without error, the entity exists at the resolved path with the
\* declared type, its content equals the bytes produced by the content
\* producer when one is declared, and its permission mode equals the
\* declared Mode, or 0644 for a file and 0755 for a directory when Mode is
\* unset.
CreatePostcondition ==
    [][(CreateStep /\ ~Failed /\ ~TheFile.Absent) =>
          /\ DeclaredTypeAndContent
          /\ fs'[TheFile.Path].mode = DeclaredMode]_vars

----------------------------------------------------------------------------
(* Claims about the steps of a content write, in the Write specification. *)

\* The entry at path p is a regular file holding part of some content.
HalfWritten(entry) == entry.kind = "file" /\ entry.content \in PartlyWritten

\* safeWriteContent is returning an error to writeContent.
WriteFailing == pc = "deferred" /\ err # Nil

\* C23: atomic write safety on Update: if rewriting the content of an
\* existing file (by an Update of a File not declared a directory) fails at
\* any point (content producer error, checksum mismatch, failure to remove
\* or rename), Update returns an error and the target path still holds
\* exactly its prior content.
UpdateFailureKeepsContent ==
    [][(/\ WriteFailing
        /\ pc' # pc
        /\ call.op = "Update"
        /\ ~TheFile.Directory
        /\ call.before[TheFile.Path].kind = "file") =>
          /\ pc' = "done"
          /\ err' # Nil
          /\ fs'[TheFile.Path].kind = "file"
          /\ fs'[TheFile.Path].content = call.before[TheFile.Path].content]_vars

\* C25: temporary file cleanup: after safeWriteContent returns, by any
\* route (success, content producer error, checksum mismatch, failure to
\* remove the old target, failure to rename), no temporary file created by
\* it remains in the directory of the target.
TemporaryFileRemoved == pc \in {"ensureMode", "done"} => tmp = NoEnt

\* os.Rename failed with the content written to the temporary file, and
\* Update has returned: the temporary file is gone.
TemporaryFileRemovedWitness ==
    /\ pc = "done"
    /\ err = RenameFailed
    /\ tmp = NoEnt

\* C26: no half-written target is ever observable: at every step of a
\* content write performed by Create or Update neither the target path nor
\* what a concurrent reader saw at it holds part of the bytes of the
\* declared content; the streamed bytes go to the temporary file only, and
\* the content of the target becomes the declared one solely by the final
\* rename of the temporary file holding it in full.
NoHalfWrittenTarget ==
    /\ [](/\ \A p \in Paths : ~HalfWritten(fs[p])
          /\ \A i \in 1..Len(seen) : ~HalfWritten(seen[i]))
    /\ [][(/\ fs'[TheFile.Path].kind = "file"
           /\ fs'[TheFile.Path].content # ""
           /\ Target.kind = "file" => fs'[TheFile.Path].content # Target.content) =>
             /\ pc = "rename"
             /\ fs'[TheFile.Path] = tmp
             /\ tmp.content = TheFile.Content.data]_vars

\* A reader has seen the target, an existing file still holding its old
\* content, while the temporary file holds part of the declared content.
NoHalfWrittenTargetWitness ==
    /\ pc = "content"
    /\ HalfWritten(tmp)
    /\ Target.kind = "file"
    /\ seen = <<Target>>

----------------------------------------------------------------------------
\* C31: an error from Get interrupts execution: if the Get of a resource
\* returns an error, Apply invokes no Get, Create or Update on any later
\* resource of the list and returns a non-nil error together with the
\* results recorded before the failing resource (one per Create or Update
\* made on the resources before it, none for it).
GetErrorInterrupts ==
    \A i \in 1..Len(resources) :
        (\E k \in Calls("Get", i) : log[k].err # Nil) =>
            /\ Done
            /\ err # Nil
            /\ \A j \in (i + 1)..Len(resources) :
                  ~Invoked("Get", j) /\ ~Invoked("Create", j) /\ ~Invoked("Update", j)
            /\ ~Invoked("Create", i) /\ ~Invoked("Update", i)
            /\ LET acts == SelectSeq(log, LAMBDA c : IsActionCall(c) /\ c.idx < i) IN
               results = [n \in 1..Len(acts) |->
                             ApplyResult(ActionOf(acts[n].op), resources[acts[n].idx],
                                         acts[n].err)]

\* Of three resources the first was created, the Update of the second
\* failed and the Get of the third failed: Apply returned the two results.
GetErrorInterruptsWitness ==
    /\ Done
    /\ Len(resources) = 3
    /\ Len(results) = 2
    /\ results[2].err # Nil
    /\ \E k \in Calls("Get", 3) : log[k].err # Nil

----------------------------------------------------------------------------
\* What NeedsUpdate is to answer for the declared File and the entity at
\* the target path, by the decision rule.
RuleAnswer ==
    IF TheFile.Absent THEN TRUE
    ELSE IF TheFile.Directory # (Target.kind = "dir") THEN TRUE
    ELSE IF Perm(DeclaredMode) # Perm(Target.mode) THEN TRUE
    ELSE IF ~TheFile.Content.nil /\ ~TheFile.KeepExistingContent
    THEN IF TheFile.MD5 # NoMD5 /\ TheFile.MD5 = Md5(ReadAll(fs, TheFile.Path)) THEN FALSE
         ELSE Md5(ReadAll(fs, TheFile.Path)) # Md5(TheFile.Content.data)
    ELSE FALSE

\* The step calls NeedsUpdate, which answers v without error.
NeedsUpdateAnswers(v) ==
    \E k \in (Len(log) + 1)..Len(log') :
        log'[k].op = "NeedsUpdate" /\ log'[k].err = Nil /\ log'[k].value = v

----------------------------------------------------------------------------
\* C33: Update with Force set but no type mismatch behaves like an ordinary
\* update: when the existing entity already has the declared type, Update
\* leaves the file system and returns the error that the Update of the same
\* declaration without Force does (content rewritten unless
\* KeepExistingContent is set, mode applied, nothing removed or created
\* anew), and it succeeds for an existing directory as well as for an
\* existing file when no content is to be written.
ForceWithoutMismatchIsOrdinary ==
    [][(/\ InLoop
        /\ TheFile.Force
        /\ ~TheFile.Absent
        /\ TargetExists
        /\ ~TypeMismatch
        /\ RuleAnswer) =>
          LET ordinary == FileUpdate([TheFile EXCEPT !.Force = FALSE], fs) IN
          /\ UpdateStep
          /\ fs' = ordinary.fs
          /\ log'[Len(log')].err = ordinary.err
          /\ (TheFile.Content.nil \/ TheFile.KeepExistingContent) => ~Failed]_vars

----------------------------------------------------------------------------
\* C34: inspection has no effect: File.Get changes nothing in the managed
\* state, whatever the declaration and the prior state: the existence,
\* type, content and mode of every path are the same after Get as before,
\* no temporary file appears, and no provider, facter or version cursor is
\* modified.
GetChangesNothing ==
    [][(pc = "idle" /\ pc' # "idle") =>
          /\ fs' = fs
          /\ tmp' = tmp
          /\ providers' = providers
          /\ facters' = facters
          /\ version' = version]_vars

\* Get has returned a state for a declared file with content whose target
\* exists as a directory holding an entry; Create or Update is still to be
\* called.
GetChangesNothingWitness ==
    /\ pc = "inspected"
    /\ err = Nil
    /\ ~TheFile.Content.nil
    /\ Target.kind = "dir"
    /\ Children(fs, TheFile.Path) # {}

----------------------------------------------------------------------------
\* C35: strictly sequential processing without retries: within one Apply
\* each declared resource has Get invoked at most once and at most one of
\* Create or Update invoked at most once, a failed operation is never
\* invoked again, and all operations on a resource come, Get first, before
\* the Get of the next one: the calls are made in the order of the list.
SequentialWithoutRetries ==
    /\ \A i \in 1..Len(resources) :
          /\ Cardinality(Calls("Get", i)) <= 1
          /\ Cardinality(Calls("NeedsUpdate", i)) <= 1
          /\ Cardinality(Calls("Create", i) \cup Calls("Update", i)) <= 1
    /\ \A k, k2 \in 1..Len(log) :
          (k < k2 /\ log[k].err # Nil) =>
              ~(log[k2].op = log[k].op /\ log[k2].idx = log[k].idx)
    /\ \A k, k2 \in 1..Len(log) : k < k2 => log[k].idx <= log[k2].idx
    /\ \A k \in 1..Len(log) :
          log[k].op = "Get" <=> (k = 1 \/ log[k - 1].idx < log[k].idx)

\* Of three resources the Create of the first and the Update of the second
\* failed, and the third was inspected all the same: five calls on the
\* first two, none repeated.
SequentialWithoutRetriesWitness ==
    /\ Done
    /\ Len(resources) = 3
    /\ \E k \in Calls("Create", 1) : log[k].err # Nil
    /\ \E k \in Calls("Update", 2) : log[k].err # Nil
    /\ Invoked("Get", 3)
    /\ Cardinality({k \in 1..Len(log) : log[k].idx < 3}) = 5

----------------------------------------------------------------------------
\* C36: a failed migration blocks the resource list: when RunMigrations
\* returns an error, from a migration function or from Versioner.Set,
\* ApplyCtx invokes no Get, Create or Update on any declared resource and
\* returns the migration results accumulated so far together with an error
\* that wraps the migration error.
FailedMigrationBlocksResources ==
    \A n \in RunsMigrated :
        \A k \in EventsOf("returned", n) \cup EventsOf("Set", n) :
            (mlog[k].err # Nil /\ mlog[k].depth = 1) =>
                /\ mruns[n].returned
                /\ mruns[n].results = ReturnedIn(n)
                /\ mruns[n].err # Nil
                /\ ErrorsIs(mruns[n].err, mlog[k].err)
                /\ n = Len(mruns) => (log = <<>> /\ pc # "resources")

\* The first migration of a run returned its results and was saved, Set
\* failed after the second: ApplyCtx has returned the results of both and
\* an error wrapping the one of Set, and no resource was inspected.
FailedMigrationBlocksResourcesWitness ==
    /\ pc = "done"
    /\ Len(mruns) = 1
    /\ Cardinality(EventsOf("Set", 1)) = 2
    /\ \E k \in EventsOf("Set", 1) : mlog[k].err = SetFailed
    /\ Len(mruns[1].results) = 2
    /\ ErrorsIs(mruns[1].err, SetFailed)
    /\ mruns[1].err # SetFailed
    /\ resources # <<>>
    /\ log = <<>>

----------------------------------------------------------------------------
\* The versions passed to Versioner.Set in the n-th run, in the order of
\* the calls, whether Set returned an error or not.
SetIn(n) ==
    LET sets == SelectSeq(mlog, LAMBDA e : e.op = "Set" /\ e.run = n) IN
    [i \in 1..Len(sets) |-> sets[i].version]

\* C37: the version cursor is monotonic: during any RunMigrations the
\* successive values passed to Versioner.Set are strictly increasing and
\* each is strictly greater than the Current() value read at the start of
\* the run, so that RunMigrations never lowers the persisted cursor.
VersionCursorMonotonic ==
    /\ [](\A n \in RunsStarted :
            /\ StrictlyIncreasing(SetIn(n))
            /\ \A i \in 1..Len(SetIn(n)) : SetIn(n)[i] > CurrentAt(n))
    /\ [][version' >= version]_vars

\* A run that read 1 from Current() has called Set with 2 and then with 3,
\* and the Versioner holds 3.
VersionCursorMonotonicWitness ==
    /\ 1 \in RunsMigrated
    /\ CurrentAt(1) = 1
    /\ SetIn(1) = <<2, 3>>
    /\ version = 3

----------------------------------------------------------------------------
\* The runs on a fresh cursor that succeeded: Current() answered 0, the
\* initial value, and RunMigrations returned no error, so that no Set and
\* no migration function failed.
FreshRuns == {n \in RunsMigrated : CurrentAt(n) = 0 /\ mruns[n].merr = Nil}

\* C38 as stated: on a fresh cursor a successful RunMigrations invokes
\* every registered migration exactly once, including one registered at
\* version 0.
FreshCursorRunsEveryMigration ==
    \A n \in FreshRuns : InvokedIn(n) = migrations

\* C38 amended: on a fresh cursor a successful RunMigrations invokes every
\* migration registered at a version greater than 0 exactly once, in the
\* order of registration, and does not invoke one registered at version 0.
FreshCursorRunsMigrationsAboveZero ==
    \A n \in FreshRuns :
        /\ InvokedIn(n) = SelectSeq(migrations, LAMBDA v : v > 0)
        /\ \A i \in 1..Len(InvokedIn(n)) : InvokedIn(n)[i] # 0

\* Migrations were registered at 0, 1 and 2; the run on the fresh cursor
\* has succeeded and invoked those of 1 and 2, and the cursor reads 2.
FreshCursorWitness ==
    /\ migrations = <<0, 1, 2>>
    /\ 1 \in FreshRuns
    /\ InvokedIn(1) = <<1, 2>>
    /\ version = 2

----------------------------------------------------------------------------
\* C39: Apply never crashes on a File declaration: for every combination of
\* File fields and every state of the target path Get, Found and
\* NeedsUpdate complete without a runtime panic; for a File declared Absent
\* with a content producer declared and a target that does not exist,
\* NeedsUpdate returns false without using the content handle.
FileInspectionNeverPanics ==
    /\ pc # "panic"
    /\ InLoop =>
          LET got == FileGet(TheFile, fs) IN
          (got.err = Nil /\ FileFound(got.state)) =>
              /\ ~FileNeedsUpdate(got.state, TheFile, fs).panic
              /\ (TheFile.Absent /\ ~TargetExists) =>
                     ~FileNeedsUpdate(got.state, TheFile, fs).value

====
